---- MODULE Spec2Model ----
(***************************************************************************)
(* Market-data router with a paper-trading matcher (Simple-Router-API).    *)
(* The model covers app/paper.py (balances, orders, the open-order index), *)
(* app/storage.py (the snapshot file), app/market.py (the quote table and  *)
(* the synthetic best touch) and the handlers of app/main.py that reach    *)
(* them.  Every `await` of a handler is a point where another task may     *)
(* run; the code between two awaits is one atomic step.                    *)
(***************************************************************************)
EXTENDS Integers, Sequences, FiniteSets, TLC

(***************************************************************************)
(* Bounds of the model.                                                    *)
(***************************************************************************)
\* Number of deposits accepted over a run.
MaxDeposits == 1
\* Number of quote updates accepted over a run of the market specification.
MaxQuotes == 2
\* Number of trades handled over a run.
MaxTrades == 2
\* Number of ticks of the candle loop over a run.
MaxTicks == 2
\* Number of frames a client sends on a websocket.
MaxFrames == 4
\* Number of subscriptions a websocket holds at a time.
MaxSubs == 2
\* Length of the symbols handed to split_symbol.
MaxSymbolLen == 5

(***************************************************************************)
(* Values.                                                                 *)
(***************************************************************************)
\* Python's None; an Optional[float] is None or <<x>>.
None == << >>
Some(x) == <<x>>
Val(o) == o[1]

\* Symbols and assets are strings, modelled as sequences of characters so
\* that split_symbol computes on them as the code does.
BTCUSDT == <<"B", "T", "C", "U", "S", "D", "T">>
ETHUSDT == <<"E", "T", "H", "U", "S", "D", "T">>
USDT == <<"U", "S", "D", "T">>
USDC == <<"U", "S", "D", "C">>
USD == <<"U", "S", "D">>
BTC == <<"B", "T", "C">>
ETH == <<"E", "T", "H">>

Users == {"alice", "bob"}
Symbols == {BTCUSDT, ETHUSDT}
TokenIds == {"ord-1", "ord-2"}
Sides == {"buy", "sell"}
Venues == {"binance", "okx"}

(***************************************************************************)
(* Amounts (Balance.total, Balance.available, Order.price, .quantity,      *)
(* .reserved_amount) are Python floats in the code.  The model counts them *)
(* in whole units of the smallest amount, in exact arithmetic: the         *)
(* rounding of binary64 is not modelled.                                   *)
(***************************************************************************)
(***************************************************************************)
(* config.py                                                               *)
(***************************************************************************)
EndsWith(s, suffix) ==
    /\ Len(s) >= Len(suffix)
    /\ SubSeq(s, Len(s) - Len(suffix) + 1, Len(s)) = suffix

\* s[:-n] and s[-n:] of Python.
DropLast(s, n) == IF Len(s) <= n THEN << >> ELSE SubSeq(s, 1, Len(s) - n)
TakeLast(s, n) == IF Len(s) <= n THEN s ELSE SubSeq(s, Len(s) - n + 1, Len(s))

\* Mutant: the last three characters are the quote of every symbol.
split_symbol_last_three(symbol) == <<DropLast(symbol, 3), TakeLast(symbol, 3)>>

split_symbol(symbol) ==
    IF EndsWith(symbol, USDT) THEN <<DropLast(symbol, 4), USDT>>
    ELSE IF EndsWith(symbol, USD) THEN <<DropLast(symbol, 3), USD>>
    ELSE IF EndsWith(symbol, USDC) THEN <<DropLast(symbol, 4), USDC>>
    ELSE <<DropLast(symbol, 3), TakeLast(symbol, 3)>>

Assets == {split_symbol(s)[1] : s \in Symbols} \cup {split_symbol(s)[2] : s \in Symbols}

(***************************************************************************)
(* state.py: the in-memory application state.                              *)
(***************************************************************************)
VARIABLES
    users,                  \* STATE.users: username -> [password_hash]
    balances,               \* STATE.balances: username -> asset -> Balance
    orders,                 \* STATE.orders: token_id -> Order
    open_orders_by_symbol,  \* STATE.open_orders_by_symbol: symbol -> list of token_id
    best_touch,             \* STATE.best_touch: symbol -> per-venue quotes, in insertion order
    disk,                   \* the snapshot file of storage.py, None while it does not exist
    tasks,                  \* the running best-touch handlers and matcher calls
    published,              \* the best_touch events handed to the hub, oldest first
    ret,                    \* what the last step returned to the HTTP handler (None: nothing)
    ndeposits,              \* deposits accepted so far
    nquotes                 \* quote updates accepted so far

(***************************************************************************)
(* ws_server.py, market.py, main.py: the hub, the candles, the sessions.   *)
(***************************************************************************)
VARIABLES
    connections,            \* WS_HUB._connections: the registry, in order of registration
    subs,                   \* WSConnection.subs of each connection
    ewma_state,             \* WSConnection.ewma_state of each connection
    session,                \* where ws_endpoint stands for each websocket
    broken,                 \* the websockets on which a send raises
    sent,                   \* the frames sent on each websocket, oldest first
    klines,                 \* _KLINES: the active candles, in insertion order
    klines_lock,            \* the task holding _KLINES_LOCK, None when free
    now,                    \* the clock read by _now()
    emit,                   \* the trade handlers and the candle tick loop
    ntrades,                \* trades handled so far
    nticks,                 \* ticks started so far
    nframes                 \* client frames received so far on each websocket

hubVars == <<connections, subs, ewma_state, session, broken, sent, klines, klines_lock,
             now, emit, ntrades, nticks, nframes>>

stateVars == <<users, balances, orders, open_orders_by_symbol>>
paperVars == <<users, balances, orders, open_orders_by_symbol, best_touch, disk,
               tasks, published, ret, ndeposits, nquotes>>
vars == <<users, balances, orders, open_orders_by_symbol, best_touch, disk,
          tasks, published, ret, ndeposits, nquotes, hubVars>>

\* A dict with no key.
EmptyDict == [k \in {} |-> k]

\* dict.setdefault(key, default) as the dict it leaves behind.
SetDefault(d, key, default) == IF key \in DOMAIN d THEN d ELSE d @@ (key :> default)

\* Balance(): total 0.0, available 0.0.
NewBalance == [total |-> 0, available |-> 0]

\* The four collections of STATE that the paper engine and storage share.
Store == [users |-> users, balances |-> balances, orders |-> orders,
          open_orders_by_symbol |-> open_orders_by_symbol]

(***************************************************************************)
(* paper.py                                                                *)
(***************************************************************************)
\* _get_balance creates the user's dict and the asset's Balance when missing;
\* this is STATE.balances after the call.
_get_balance(b, username, asset) ==
    LET b1 == SetDefault(b, username, EmptyDict)
    IN  [b1 EXCEPT ![username] = SetDefault(b1[username], asset, NewBalance)]

\* The amounts a reader sees for (username, asset): user_bal.get(asset, Balance()).
BalanceOf(b, username, asset) ==
    IF username \in DOMAIN b /\ asset \in DOMAIN b[username]
    THEN b[username][asset] ELSE NewBalance

\* Mutant: the funds are reserved without the check of the available balance.
_reserve_for_order_unchecked(b, username, side, symbol, price, qty) ==
    LET base == split_symbol(symbol)[1]
        quote == split_symbol(symbol)[2]
        asset == IF side = "buy" THEN quote ELSE base
        need == IF side = "buy" THEN price * qty ELSE qty
        b1 == _get_balance(b, username, asset)
    IN  [ok |-> TRUE, reserved |-> need, reason |-> << >>,
         balances |-> [b1 EXCEPT ![username][asset].available = @ - need]]

\* Mutant: a buy reserves its price, not price * quantity.
_reserve_for_order_price_only(b, username, side, symbol, price, qty) ==
    LET base == split_symbol(symbol)[1]
        quote == split_symbol(symbol)[2]
        asset == IF side = "buy" THEN quote ELSE base
        need == IF side = "buy" THEN price ELSE qty
        b1 == _get_balance(b, username, asset)
    IN  IF b1[username][asset].available < need
        THEN [ok |-> FALSE, reserved |-> 0, reason |-> <<"insufficient ">> \o asset \o <<" balance">>,
              balances |-> b1]
        ELSE [ok |-> TRUE, reserved |-> need, reason |-> << >>,
              balances |-> [b1 EXCEPT ![username][asset].available = @ - need]]

_reserve_for_order(b, username, side, symbol, price, qty) ==
    LET base == split_symbol(symbol)[1]
        quote == split_symbol(symbol)[2]
    IN  IF side = "buy"
        THEN LET cost == price * qty
                 b1 == _get_balance(b, username, quote)
             IN  IF b1[username][quote].available < cost
                 THEN [ok |-> FALSE, reserved |-> 0, reason |-> <<"insufficient ">> \o quote \o <<" balance">>,
                       balances |-> b1]
                 ELSE [ok |-> TRUE, reserved |-> cost, reason |-> << >>,
                       balances |-> [b1 EXCEPT ![username][quote].available = @ - cost]]
        ELSE LET b1 == _get_balance(b, username, base)
             IN  IF b1[username][base].available < qty
                 THEN [ok |-> FALSE, reserved |-> 0, reason |-> <<"insufficient ">> \o base \o <<" balance">>,
                       balances |-> b1]
                 ELSE [ok |-> TRUE, reserved |-> qty, reason |-> << >>,
                       balances |-> [b1 EXCEPT ![username][base].available = @ - qty]]

\* Mutant: the reserve of a buy is released into the base asset.
_release_reserve_wrong_asset(b, username, side, symbol, reserved) ==
    LET base == split_symbol(symbol)[1]
        b1 == _get_balance(b, username, base)
    IN  [b1 EXCEPT ![username][base].available = @ + reserved]

_release_reserve(b, username, side, symbol, reserved) ==
    LET base == split_symbol(symbol)[1]
        quote == split_symbol(symbol)[2]
        asset == IF side = "buy" THEN quote ELSE base
        b1 == _get_balance(b, username, asset)
    IN  [b1 EXCEPT ![username][asset].available = @ + reserved]

\* Mutant: a buy filled below its limit keeps the unused reservation.
_apply_fill_no_refund(b, username, side, symbol, price, qty, reserved) ==
    LET base == split_symbol(symbol)[1]
        quote == split_symbol(symbol)[2]
        b0 == _get_balance(_get_balance(b, username, quote), username, base)
    IN  IF side = "buy"
        THEN [b0 EXCEPT ![username][quote].total = @ - (price * qty),
                        ![username][base].total = @ + qty,
                        ![username][base].available = @ + qty]
        ELSE [b0 EXCEPT ![username][base].total = @ - qty,
                        ![username][quote].total = @ + (price * qty),
                        ![username][quote].available = @ + (price * qty)]

_apply_fill(b, username, side, symbol, price, qty, reserved) ==
    LET base == split_symbol(symbol)[1]
        quote == split_symbol(symbol)[2]
    IN  IF side = "buy"
        THEN LET b0 == _get_balance(_get_balance(b, username, quote), username, base)
                 cost == price * qty
                 b1 == [b0 EXCEPT ![username][quote].total = @ - cost]
                 b2 == [b1 EXCEPT ![username][base].total = @ + qty]
                 b3 == [b2 EXCEPT ![username][base].available = @ + qty]
             IN  IF reserved > cost
                 THEN [b3 EXCEPT ![username][quote].available = @ + (reserved - cost)]
                 ELSE b3
        ELSE LET b0 == _get_balance(_get_balance(b, username, base), username, quote)
                 b1 == [b0 EXCEPT ![username][base].total = @ - qty]
                 b2 == [b1 EXCEPT ![username][quote].total = @ + (price * qty)]
             IN  [b2 EXCEPT ![username][quote].available = @ + (price * qty)]

\* [tid for tid in ids if tid != token_id]
RECURSIVE Without(_, _)
Without(ids, token_id) ==
    IF ids = << >> THEN << >>
    ELSE IF Head(ids) = token_id THEN Without(Tail(ids), token_id)
    ELSE <<Head(ids)>> \o Without(Tail(ids), token_id)

\* Order(...) as place_order builds it; created_at (the wall clock) is left out.
NewOrder(token_id, username, symbol, side, price, qty, reserved) ==
    [token_id |-> token_id, username |-> username, symbol |-> symbol, side |-> side,
     price |-> price, quantity |-> qty, status |-> "open", filled_price |-> None,
     reason |-> None, reserved_amount |-> reserved]

(***************************************************************************)
(* storage.py                                                              *)
(***************************************************************************)
\* Mutant: the snapshot leaves out the reserved amount of an order.
save_state_omits_reserve(st) ==
    [users |-> [u \in DOMAIN st.users |-> [password_hash |-> st.users[u].password_hash]],
     balances |-> st.balances,
     orders |-> [t \in DOMAIN st.orders |->
                  [token_id |-> st.orders[t].token_id,
                   username |-> st.orders[t].username,
                   symbol |-> st.orders[t].symbol,
                   side |-> st.orders[t].side,
                   price |-> st.orders[t].price,
                   quantity |-> st.orders[t].quantity,
                   status |-> st.orders[t].status,
                   filled_price |-> st.orders[t].filled_price,
                   reason |-> st.orders[t].reason]],
     open_orders_by_symbol |-> st.open_orders_by_symbol]

\* The document save_state writes: users keep their password hash only, the
\* other collections are written field by field.
save_state(st) ==
    [users |-> [u \in DOMAIN st.users |-> [password_hash |-> st.users[u].password_hash]],
     balances |-> [u \in DOMAIN st.balances |->
                    [a \in DOMAIN st.balances[u] |->
                      [total |-> st.balances[u][a].total,
                       available |-> st.balances[u][a].available]]],
     orders |-> [t \in DOMAIN st.orders |->
                  [token_id |-> st.orders[t].token_id,
                   username |-> st.orders[t].username,
                   symbol |-> st.orders[t].symbol,
                   side |-> st.orders[t].side,
                   price |-> st.orders[t].price,
                   quantity |-> st.orders[t].quantity,
                   status |-> st.orders[t].status,
                   filled_price |-> st.orders[t].filled_price,
                   reason |-> st.orders[t].reason,
                   reserved_amount |-> st.orders[t].reserved_amount]],
     open_orders_by_symbol |-> st.open_orders_by_symbol]

\* AppState(): the four collections of a fresh instance.
Cleared == [users |-> EmptyDict, balances |-> EmptyDict, orders |-> EmptyDict,
            open_orders_by_symbol |-> EmptyDict]

\* A keyword argument of a dataclass constructor, or the default of the field.
Field(o, name, default) == IF name \in DOMAIN o THEN o[name] ELSE default

\* Order(**o): the fields from status on have defaults.
OrderFrom(o) ==
    [token_id |-> o.token_id, username |-> o.username, symbol |-> o.symbol,
     side |-> o.side, price |-> o.price, quantity |-> o.quantity,
     status |-> Field(o, "status", "open"),
     filled_price |-> Field(o, "filled_price", None),
     reason |-> Field(o, "reason", None),
     reserved_amount |-> Field(o, "reserved_amount", 0)]

\* Balance(**vals)
BalanceFrom(vals) ==
    [total |-> Field(vals, "total", 0), available |-> Field(vals, "available", 0)]

\* raw.get(key, {})
RawGet(raw, key) == IF key \in DOMAIN raw THEN raw[key] ELSE EmptyDict

\* load_state on the store st with the snapshot file doc (None: no file).
load_state(st, doc) ==
    IF doc = None THEN st
    ELSE [users |-> [u \in DOMAIN RawGet(doc, "users") |->
                       [username |-> u, password_hash |-> doc.users[u].password_hash]],
          balances |-> [u \in DOMAIN RawGet(doc, "balances") |->
                          [a \in DOMAIN doc.balances[u] |-> BalanceFrom(doc.balances[u][a])]],
          orders |-> [t \in DOMAIN RawGet(doc, "orders") |-> OrderFrom(doc.orders[t])],
          open_orders_by_symbol |-> RawGet(doc, "open_orders_by_symbol")]

(***************************************************************************)
(* The critical sections (async with STATE.lock) of main.py and paper.py,  *)
(* as functions of the store they run on.                                  *)
(***************************************************************************)
\* main.register
register(st, username, password_hash) ==
    IF username \in DOMAIN st.users
    THEN [ok |-> FALSE, reason |-> <<"user already exists">>, st |-> st]
    ELSE [ok |-> TRUE, reason |-> << >>,
          st |-> [st EXCEPT
                    !.users = @ @@ (username :> [username |-> username,
                                                 password_hash |-> password_hash]),
                    !.balances = SetDefault(@, username, EmptyDict)]]

\* Mutant: the deposit is credited to the total only.
deposit_total_only(st, username, asset, amount) ==
    LET b1 == _get_balance(st.balances, username, asset)
    IN  [st EXCEPT !.balances = [b1 EXCEPT ![username][asset].total = @ + amount]]

deposit(st, username, asset, amount) ==
    LET b1 == _get_balance(st.balances, username, asset)
        b2 == [b1 EXCEPT ![username][asset].total = @ + amount]
        b3 == [b2 EXCEPT ![username][asset].available = @ + amount]
    IN  [st EXCEPT !.balances = b3]

\* Mutant: a token_id in use is not refused; the new order replaces the old.
place_order_no_duplicate_check(st, username, token_id, symbol, side, price, qty) ==
    LET r == _reserve_for_order(st.balances, username, side, symbol, price, qty)
        o == NewOrder(token_id, username, symbol, side, price, qty, r.reserved)
    IN  IF ~r.ok
        THEN [ok |-> FALSE, reason |-> r.reason, st |-> [st EXCEPT !.balances = r.balances]]
        ELSE [ok |-> TRUE, reason |-> << >>,
              st |-> [st EXCEPT
                !.balances = r.balances,
                !.orders = [t \in DOMAIN @ \cup {token_id} |->
                              IF t = token_id THEN o ELSE @[t]],
                !.open_orders_by_symbol =
                    LET d == SetDefault(@, symbol, << >>)
                    IN  [d EXCEPT ![symbol] = Append(@, token_id)]]]

\* Mutant: the new order goes to the front of the open index.
place_order_prepends(st, username, token_id, symbol, side, price, qty) ==
    IF token_id \in DOMAIN st.orders
    THEN [ok |-> FALSE, reason |-> <<"token_id already exists">>, st |-> st]
    ELSE LET r == _reserve_for_order(st.balances, username, side, symbol, price, qty)
         IN  IF ~r.ok
             THEN [ok |-> FALSE, reason |-> r.reason, st |-> [st EXCEPT !.balances = r.balances]]
             ELSE [ok |-> TRUE, reason |-> << >>,
                   st |-> [st EXCEPT
                     !.balances = r.balances,
                     !.orders = @ @@ (token_id :>
                         NewOrder(token_id, username, symbol, side, price, qty, r.reserved)),
                     !.open_orders_by_symbol =
                         LET d == SetDefault(@, symbol, << >>)
                         IN  [d EXCEPT ![symbol] = <<token_id>> \o @]]]

place_order(st, username, token_id, symbol, side, price, qty) ==
    IF token_id \in DOMAIN st.orders
    THEN [ok |-> FALSE, reason |-> <<"token_id already exists">>, st |-> st]
    ELSE LET r == _reserve_for_order(st.balances, username, side, symbol, price, qty)
         IN  IF ~r.ok
             THEN [ok |-> FALSE, reason |-> r.reason, st |-> [st EXCEPT !.balances = r.balances]]
             ELSE [ok |-> TRUE, reason |-> << >>,
                   st |-> [st EXCEPT
                     !.balances = r.balances,
                     !.orders = @ @@ (token_id :>
                         NewOrder(token_id, username, symbol, side, price, qty, r.reserved)),
                     !.open_orders_by_symbol =
                         LET d == SetDefault(@, symbol, << >>)
                         IN  [d EXCEPT ![symbol] = Append(@, token_id)]]]

\* Mutant: an order that is no longer open is cancelled again.
cancel_order_any_status(st, username, token_id) ==
    IF token_id \notin DOMAIN st.orders \/ st.orders[token_id].username # username
    THEN [ok |-> FALSE, reason |-> <<"order not found">>, st |-> st]
    ELSE LET order == st.orders[token_id]
         IN  [ok |-> TRUE, reason |-> << >>,
              st |-> [st EXCEPT
                !.orders[token_id].status = "cancelled",
                !.balances = _release_reserve(@, username, order.side, order.symbol,
                                              order.reserved_amount),
                !.open_orders_by_symbol =
                    IF order.symbol \in DOMAIN @
                    THEN [@ EXCEPT ![order.symbol] = Without(@, token_id)]
                    ELSE @]]

\* Mutant: any user cancels any open order.
cancel_order_any_owner(st, username, token_id) ==
    IF token_id \notin DOMAIN st.orders
    THEN [ok |-> FALSE, reason |-> <<"order not found">>, st |-> st]
    ELSE IF st.orders[token_id].status # "open"
    THEN [ok |-> FALSE, reason |-> <<"order is not open">>, st |-> st]
    ELSE LET order == st.orders[token_id]
         IN  [ok |-> TRUE, reason |-> << >>,
              st |-> [st EXCEPT
                !.orders[token_id].status = "cancelled",
                !.balances = _release_reserve(@, order.username, order.side, order.symbol,
                                              order.reserved_amount),
                !.open_orders_by_symbol =
                    IF order.symbol \in DOMAIN @
                    THEN [@ EXCEPT ![order.symbol] = Without(@, token_id)]
                    ELSE @]]

cancel_order(st, username, token_id) ==
    IF token_id \notin DOMAIN st.orders \/ st.orders[token_id].username # username
    THEN [ok |-> FALSE, reason |-> <<"order not found">>, st |-> st]
    ELSE IF st.orders[token_id].status # "open"
    THEN [ok |-> FALSE, reason |-> <<"order is not open">>, st |-> st]
    ELSE LET order == st.orders[token_id]
         IN  [ok |-> TRUE, reason |-> << >>,
              st |-> [st EXCEPT
                !.orders[token_id].status = "cancelled",
                !.balances = _release_reserve(@, username, order.side, order.symbol,
                                              order.reserved_amount),
                !.open_orders_by_symbol =
                    IF order.symbol \in DOMAIN @
                    THEN [@ EXCEPT ![order.symbol] = Without(@, token_id)]
                    ELSE @]]

\* Mutant: a crossing order is filled at its own limit price.
fill_price_at_limit(order, best_bid, best_ask) ==
    IF \/ order.side = "buy" /\ best_ask # None /\ Val(best_ask) <= order.price
       \/ order.side = "sell" /\ best_bid # None /\ Val(best_bid) >= order.price
    THEN Some(order.price) ELSE None

\* Mutant: the comparison of a sell with the best bid is inverted.
fill_price_sell_inverted(order, best_bid, best_ask) ==
    LET p1 == IF order.side = "buy" /\ best_ask # None /\ Val(best_ask) <= order.price
              THEN best_ask ELSE None
    IN  IF order.side = "sell" /\ best_bid # None /\ Val(best_bid) <= order.price
        THEN best_bid ELSE p1

\* The price execute_on_best_touch fills an order at, None when it does not cross.
fill_price(order, best_bid, best_ask) ==
    LET p1 == IF order.side = "buy" /\ best_ask # None /\ Val(best_ask) <= order.price
              THEN best_ask ELSE None
    IN  IF order.side = "sell" /\ best_bid # None /\ Val(best_bid) >= order.price
        THEN best_bid ELSE p1

\* One iteration of the loop of execute_on_best_touch, for token_id.
execute_one(st, token_id, best_bid, best_ask) ==
    IF token_id \notin DOMAIN st.orders \/ st.orders[token_id].status # "open"
    THEN [filled |-> FALSE, st |-> st]
    ELSE LET order == st.orders[token_id]
             fp == fill_price(order, best_bid, best_ask)
         IN  IF fp = None
             THEN [filled |-> FALSE, st |-> st]
             ELSE [filled |-> TRUE,
                   st |-> [st EXCEPT
                     !.orders[token_id].status = "filled",
                     !.orders[token_id].filled_price = fp,
                     !.balances = _apply_fill(@, order.username, order.side, order.symbol,
                                              Val(fp), order.quantity, order.reserved_amount),
                     !.open_orders_by_symbol =
                         IF order.symbol \in DOMAIN @
                         THEN [@ EXCEPT ![order.symbol] = Without(@, token_id)]
                         ELSE @]]

\* list(STATE.open_orders_by_symbol.get(symbol, []))
open_ids(st, symbol) ==
    IF symbol \in DOMAIN st.open_orders_by_symbol
    THEN st.open_orders_by_symbol[symbol] ELSE << >>

\* The loop of execute_on_best_touch over order_ids when no other task runs
\* in between: the store it leaves.
RECURSIVE execute_loop(_, _, _, _)
execute_loop(st, order_ids, best_bid, best_ask) ==
    IF order_ids = << >> THEN st
    ELSE execute_loop(execute_one(st, Head(order_ids), best_bid, best_ask).st,
                      Tail(order_ids), best_bid, best_ask)

\* A whole call of execute_on_best_touch when no other task runs in between.
execute_on_best_touch(st, symbol, best_bid, best_ask) ==
    IF best_bid = None /\ best_ask = None THEN st
    ELSE execute_loop(st, open_ids(st, symbol), best_bid, best_ask)

(***************************************************************************)
(* market.py                                                               *)
(***************************************************************************)
\* per_symbol[exchange] = MarketState(...): a dict keeps the position of a
\* key it already holds and adds a new key at the end.
RECURSIVE PutQuote(_, _)
PutQuote(per_symbol, q) ==
    IF per_symbol = << >> THEN <<q>>
    ELSE IF Head(per_symbol).exchange = q.exchange THEN <<q>> \o Tail(per_symbol)
    ELSE <<Head(per_symbol)>> \o PutQuote(Tail(per_symbol), q)

\* The loop of handle_best_touch over per_symbol.items(), from the running
\* best acc = [best_bid, best_bid_exchange, best_ask, best_ask_exchange].
\* Mutant: on equal prices the later venue of the map wins.
RECURSIVE FoldBest_last_on_tie(_, _)
FoldBest_last_on_tie(per_symbol, acc) ==
    IF per_symbol = << >> THEN acc
    ELSE LET st == Head(per_symbol)
             a1 == IF st.best_bid # None
                      /\ (acc.best_bid = None \/ Val(st.best_bid) >= Val(acc.best_bid))
                   THEN [acc EXCEPT !.best_bid = st.best_bid,
                                    !.best_bid_exchange = st.exchange]
                   ELSE acc
             a2 == IF st.best_ask # None
                      /\ (a1.best_ask = None \/ Val(st.best_ask) <= Val(a1.best_ask))
                   THEN [a1 EXCEPT !.best_ask = st.best_ask,
                                   !.best_ask_exchange = st.exchange]
                   ELSE a1
         IN  FoldBest_last_on_tie(Tail(per_symbol), a2)

RECURSIVE FoldBest(_, _)
FoldBest(per_symbol, acc) ==
    IF per_symbol = << >> THEN acc
    ELSE LET st == Head(per_symbol)
             a1 == IF st.best_bid # None
                      /\ (acc.best_bid = None \/ Val(st.best_bid) > Val(acc.best_bid))
                   THEN [acc EXCEPT !.best_bid = st.best_bid,
                                    !.best_bid_exchange = st.exchange]
                   ELSE acc
             a2 == IF st.best_ask # None
                      /\ (a1.best_ask = None \/ Val(st.best_ask) < Val(a1.best_ask))
                   THEN [a1 EXCEPT !.best_ask = st.best_ask,
                                   !.best_ask_exchange = st.exchange]
                   ELSE a1
         IN  FoldBest(Tail(per_symbol), a2)

NoBest == [best_bid |-> None, best_bid_exchange |-> None,
           best_ask |-> None, best_ask_exchange |-> None]

synthetic_best_last_on_tie(per_symbol) == FoldBest_last_on_tie(per_symbol, NoBest)

synthetic_best(per_symbol) == FoldBest(per_symbol, NoBest)

\* STATE.best_touch after the critical section of handle_best_touch.
put_best_touch(bt, exchange, symbol, bid, ask) ==
    LET d == SetDefault(bt, symbol, << >>)
    IN  [d EXCEPT ![symbol] =
           PutQuote(@, [best_bid |-> Some(bid), best_ask |-> Some(ask), exchange |-> exchange])]

(***************************************************************************)
(* ws_server.py: subscriptions and the fan-out filter.                     *)
(***************************************************************************)
\* The websockets a client may open.
Conns == {"c1", "c2"}

\* SETTINGS.kline_intervals_seconds, of which the model keeps two.
kline_intervals_seconds == <<10, 60>>

\* Mutant: every interval is labelled in seconds.
_interval_label_seconds(interval) == <<interval, "s">>

\* _interval_label(interval): "{n}m" from 60 seconds on, "{n}s" below.
_interval_label(interval) ==
    IF interval >= 60 THEN <<interval \div 60, "m">> ELSE <<interval, "s">>

\* Subscription(stream, symbol, exchange, interval, half_life)
Subscription(stream, symbol, exchange, interval, half_life) ==
    [stream |-> stream, symbol |-> symbol, exchange |-> exchange,
     interval |-> interval, half_life |-> half_life]

\* Python truth of an Optional number: None and 0 are false.
Truthy(o) == o # None /\ Val(o) # 0

\* Mutant: the venue filter is not applied.
_broadcast_matches_any_venue(sub, stream, symbol, exchange, interval_label) ==
    /\ sub.stream = stream
    /\ sub.symbol = symbol
    /\ (interval_label # None => sub.interval = interval_label)

\* The four tests of _broadcast on one subscription: TRUE when none of them
\* skips it.  exchange and interval_label are None where the caller passes
\* None.
_broadcast_matches(sub, stream, symbol, exchange, interval_label) ==
    /\ sub.stream = stream
    /\ sub.symbol = symbol
    /\ (exchange # None => sub.exchange \in {exchange, Some("all")})
    /\ (interval_label # None => sub.interval = interval_label)

\* The tests of update_ewma_on_trade on one subscription.
ewma_matches(sub, symbol, exchange) ==
    /\ sub.stream = "ewma"
    /\ sub.symbol = symbol
    /\ ~(sub.exchange # Some("all") /\ sub.exchange # Some(exchange))
    /\ Truthy(sub.half_life)

\* The event a fan-out pass carries: what _broadcast or update_ewma_on_trade
\* was called with.  kind is "broadcast" or "ewma".
Event(kind, stream, symbol, exchange, interval_label, data) ==
    [kind |-> kind, stream |-> stream, symbol |-> symbol, exchange |-> exchange,
     interval_label |-> interval_label, data |-> data]

Matches(sub, ev) ==
    IF ev.kind = "ewma" THEN ewma_matches(sub, ev.symbol, Val(ev.exchange))
    ELSE _broadcast_matches(sub, ev.stream, ev.symbol, ev.exchange, ev.interval_label)

\* A pass stands between two sends: conns are the connections of its copy of
\* the registry still to serve, the first being the one whose subscriptions
\* it iterates; idx is the position of the next subscription to test; own is
\* the list it iterates when the connection has rebound conn.subs since the
\* iteration began, None while it still iterates conn.subs itself.
NewPass(registry) == [conns |-> registry, idx |-> 1, own |-> None]

\* The list the pass iterates for its current connection.
PassList(pass, allsubs) ==
    IF pass.own # None THEN Val(pass.own) ELSE allsubs[Head(pass.conns)]

\* The loops `for conn in conns: for sub in conn.subs:` from the position of
\* the pass to the next subscription that passes the tests: found, with the
\* pass standing after it, or not found at the end of the copy.
RECURSIVE FindNext(_, _, _)
FindNext(pass, allsubs, ev) ==
    IF pass.conns = << >> THEN [found |-> FALSE, pass |-> pass]
    ELSE LET list == PassList(pass, allsubs)
         IN  IF pass.idx > Len(list)
             THEN FindNext([conns |-> Tail(pass.conns), idx |-> 1, own |-> None],
                           allsubs, ev)
             ELSE IF Matches(list[pass.idx], ev)
             THEN [found |-> TRUE, conn |-> Head(pass.conns), sub |-> list[pass.idx],
                   pass |-> [pass EXCEPT !.idx = @ + 1]]
             ELSE FindNext([pass EXCEPT !.idx = @ + 1], allsubs, ev)

(***************************************************************************)
(* ws_server.py: the frames.                                               *)
(***************************************************************************)
TradeFrame(symbol, exchange, price, qty, ts) ==
    [type |-> "trades", symbol |-> symbol, exchange |-> exchange, price |-> price,
     quantity |-> qty, timestamp |-> ts]

KlineFrame(symbol, exchange, interval, candle) ==
    [type |-> "klines", symbol |-> symbol, exchange |-> exchange,
     interval |-> _interval_label(interval), start |-> candle.start, end |-> candle.end,
     open |-> candle.open, high |-> candle.high, low |-> candle.low,
     close |-> candle.close, volume |-> candle.volume]

EwmaFrame(symbol, sub, value, ts) ==
    [type |-> "ewma", symbol |-> symbol, exchange |-> sub.exchange,
     half_life |-> sub.half_life, value |-> value, timestamp |-> ts]

(***************************************************************************)
(* market.py: the candles.  _KLINES keeps its keys in insertion order.     *)
(***************************************************************************)
Max(a, b) == IF a >= b THEN a ELSE b
Min(a, b) == IF a <= b THEN a ELSE b

\* _interval_start(ts, interval)
_interval_start(ts, interval) == ts - (ts % interval)

\* The position of key in _KLINES, 0 when it is not a key.
KlineIndex(kl, key) ==
    IF \E i \in 1..Len(kl) : kl[i].key = key
    THEN CHOOSE i \in 1..Len(kl) : kl[i].key = key
    ELSE 0

\* _KLINES[key] = candle
KlinePut(kl, key, candle) ==
    LET i == KlineIndex(kl, key)
    IN  IF i = 0 THEN Append(kl, [key |-> key, candle |-> candle])
        ELSE [kl EXCEPT ![i].candle = candle]

\* Mutant: a trade below the low of the candle does not lower it.
update_candle_keeps_low(candle, interval, price, qty, ts) ==
    IF candle = None \/ ts >= Val(candle).end
    THEN [start |-> _interval_start(ts, interval),
          end |-> _interval_start(ts, interval) + interval,
          open |-> price, high |-> price, low |-> price, close |-> price, volume |-> qty]
    ELSE [Val(candle) EXCEPT !.high = Max(@, price), !.close = price, !.volume = @ + qty]

\* One iteration of the loop of _update_kline, from the candle of the key
\* (None when the key has none) to the candle it leaves.
update_candle(candle, interval, price, qty, ts) ==
    IF candle = None \/ ts >= Val(candle).end
    THEN [start |-> _interval_start(ts, interval),
          end |-> _interval_start(ts, interval) + interval,
          open |-> price, high |-> price, low |-> price, close |-> price, volume |-> qty]
    ELSE [Val(candle) EXCEPT !.high = Max(@, price), !.low = Min(@, price),
                             !.close = price, !.volume = @ + qty]

\* _KLINES after that iteration for (symbol, exchange, interval).
_update_kline(kl, symbol, exchange, interval, price, qty, ts) ==
    LET key == <<symbol, exchange, interval>>
        i == KlineIndex(kl, key)
        candle == IF i = 0 THEN None ELSE Some(kl[i].candle)
    IN  KlinePut(kl, key, update_candle(candle, interval, price, qty, ts))

\* One iteration of the loop of kline_tick_loop on a candle at time t.
roll_candle(candle, interval, t) ==
    IF t >= candle.end
    THEN [start |-> candle.end, end |-> candle.end + interval, open |-> candle.close,
          high |-> candle.close, low |-> candle.close, close |-> candle.close,
          volume |-> 0]
    ELSE candle

(***************************************************************************)
(* ws_server.py: the EWMA of a subscription.  A value is the fraction      *)
(* <<n, d>>, d a power of two, in lowest terms.                            *)
(***************************************************************************)
RECURSIVE Pow2(_)
Pow2(k) == IF k = 0 THEN 1 ELSE 2 * Pow2(k - 1)

RECURSIVE Lowest(_, _)
Lowest(n, d) == IF d > 1 /\ n % 2 = 0 THEN Lowest(n \div 2, d \div 2) ELSE <<n, d>>

\* (1 - alpha) * value + alpha * price with alpha = 1 - 2^(-dt / half_life),
\* for dt a multiple of half_life, and alpha = 1 for half_life <= 0.
Smooth(value, price, dt, half_life) ==
    IF half_life > 0
    THEN LET k == dt \div half_life
         IN  Lowest(value[1] + (Pow2(k) - 1) * price * value[2], value[2] * Pow2(k))
    ELSE <<price, 1>>

EwmaState == [value |-> None, last_ts |-> None]

\* Lines 114-121 of update_ewma_on_trade on the state of a key.
ewma_step(state, half_life, price, ts) ==
    IF state.value = None
    THEN [value |-> Some(<<price, 1>>), last_ts |-> Some(ts)]
    ELSE LET last == IF Truthy(state.last_ts) THEN Val(state.last_ts) ELSE ts
             dt == Max(0, ts - last)
         IN  [value |-> Some(Smooth(Val(state.value), price, dt, half_life)),
              last_ts |-> Some(ts)]

\* conn.ewma_state after the subscription sub was served for a trade.
ewma_update(states, sub, symbol, price, ts) ==
    LET key == <<symbol, sub.exchange, sub.half_life>>
        d == SetDefault(states, key, EwmaState)
    IN  [d EXCEPT ![key] = ewma_step(@, Val(sub.half_life), price, ts)]

(***************************************************************************)
(* The tasks of the hub side.                                              *)
(***************************************************************************)
\* The candle tick loop, the loop of each venue that calls handle_trade and
\* the loop that calls handle_best_touch: OKX reads its tickers and its
\* trades in one loop, Binance in two.
Ticker == "tick"
Book(exchange) == IF exchange = "okx" THEN "okx" ELSE "binance book ticker"
Emitters == Venues \cup {Ticker} \cup {Book(v) : v \in Venues}

IdleEmit == [pc |-> "idle", symbol |-> None, exchange |-> None, price |-> 0, qty |-> 0,
             ts |-> 0, kx |-> None, ki |-> 0, keys |-> << >>,
             pass |-> NewPass(<< >>), ev |-> None]

\* A websocket on which no frame has come yet.
NewSession == [pc |-> "new", close_code |-> None, username |-> None]

(***************************************************************************)
(* Inputs.                                                                 *)
(***************************************************************************)
Amounts == {7}
Prices == {1, 2}
Quantities == {3}
\* (best_bid, best_ask) of a direct call of execute_on_best_touch
BestPairs == {<<None, None>>, <<None, Some(1)>>, <<Some(2), None>>, <<Some(1), Some(2)>>}
\* bid / ask of a venue quote
QuotePrices == {1, 2}
PasswordHashes == {"pbkdf2"}

\* The matcher call that is not made by a venue handler.
Direct == "direct"
Tasks == Venues \cup {Direct}

Idle == [pc |-> "idle", symbol |-> None, best_bid |-> None, best_bid_exchange |-> None,
         best_ask |-> None, best_ask_exchange |-> None, order_ids |-> << >>]

Init ==
    /\ users = EmptyDict
    /\ balances = EmptyDict
    /\ orders = EmptyDict
    /\ open_orders_by_symbol = EmptyDict
    /\ best_touch = EmptyDict
    /\ disk = None
    /\ tasks = [t \in Tasks |-> Idle]
    /\ published = None
    /\ ret = None
    /\ ndeposits = 0
    /\ nquotes = 0
    /\ connections = << >>
    /\ subs = [c \in Conns |-> << >>]
    /\ ewma_state = [c \in Conns |-> EmptyDict]
    /\ session = [c \in Conns |-> NewSession]
    /\ broken = {}
    /\ sent = [c \in Conns |-> << >>]
    /\ klines = << >>
    /\ klines_lock = None
    /\ now = 0
    /\ emit = [e \in Emitters |-> IF e = Ticker THEN [IdleEmit EXCEPT !.pc = "sleep"]
                                   ELSE IdleEmit]
    /\ ntrades = 0
    /\ nticks = 0
    /\ nframes = [c \in Conns |-> 0]

\* The handler's critical section leaves st in memory and save_state runs.
Commit(st) ==
    /\ users' = st.users
    /\ balances' = st.balances
    /\ orders' = st.orders
    /\ open_orders_by_symbol' = st.open_orders_by_symbol
    /\ disk' = save_state(st)

\* The handler returns before save_state.
CommitNoSave(st) ==
    /\ users' = st.users
    /\ balances' = st.balances
    /\ orders' = st.orders
    /\ open_orders_by_symbol' = st.open_orders_by_symbol
    /\ disk' = disk

(***************************************************************************)
(* The HTTP handlers of main.py and the coroutines of paper.py they await.  *)
(***************************************************************************)
Register(username, password_hash) ==
    LET r == register(Store, username, password_hash)
    IN  /\ IF r.ok THEN Commit(r.st) ELSE CommitNoSave(r.st)
        /\ ret' = [op |-> "register", ok |-> r.ok, reason |-> r.reason]
        /\ UNCHANGED <<best_touch, tasks, published, ndeposits, nquotes, hubVars>>

Deposit(username, asset, amount) ==
    /\ ndeposits < MaxDeposits
    /\ Commit(deposit(Store, username, asset, amount))
    /\ ndeposits' = ndeposits + 1
    /\ ret' = None
    /\ UNCHANGED <<best_touch, tasks, published, nquotes, hubVars>>

PlaceOrder(username, token_id, symbol, side, price, qty) ==
    /\ LET r == place_order(Store, username, token_id, symbol, side, price, qty)
       IN  /\ IF r.ok THEN Commit(r.st) ELSE CommitNoSave(r.st)
           /\ ret' = [op |-> "place_order", ok |-> r.ok, reason |-> r.reason]
    /\ UNCHANGED <<best_touch, tasks, published, ndeposits, nquotes, hubVars>>

\* The status codes of the HTTP answers.
Ok == 200
BadRequest == 400
NotFound == 404

\* paper.get_order: the order when it belongs to the user, None otherwise.
get_order(st, username, token_id) ==
    IF token_id \notin DOMAIN st.orders \/ st.orders[token_id].username # username
    THEN None
    ELSE Some(st.orders[token_id])

\* GET /orders/{token_id}
OrderStatus(username, token_id) ==
    /\ LET order == get_order(Store, username, token_id)
       IN  ret' = IF order = None
                  THEN [op |-> "order_status", ok |-> FALSE,
                        reason |-> <<"order not found">>, status |-> NotFound]
                  ELSE [op |-> "order_status", ok |-> TRUE, reason |-> << >>,
                        status |-> Ok]
    /\ UNCHANGED <<users, balances, orders, open_orders_by_symbol, best_touch, disk,
                   tasks, published, ndeposits, nquotes, hubVars>>

\* DELETE /orders/{token_id}
CancelOrder(username, token_id) ==
    /\ LET r == cancel_order(Store, username, token_id)
       IN  /\ IF r.ok THEN Commit(r.st) ELSE CommitNoSave(r.st)
           /\ ret' = [op |-> "cancel_order", ok |-> r.ok, reason |-> r.reason,
                      status |-> IF r.ok THEN Ok ELSE BadRequest]
    /\ UNCHANGED <<best_touch, tasks, published, ndeposits, nquotes, hubVars>>

\* The process starts again: a fresh STATE and hub, then load_state.
Startup ==
    /\ LET st == load_state(Cleared, disk)
       IN  /\ users' = st.users
           /\ balances' = st.balances
           /\ orders' = st.orders
           /\ open_orders_by_symbol' = st.open_orders_by_symbol
    /\ best_touch' = EmptyDict
    /\ tasks' = [t \in Tasks |-> Idle]
    /\ published' = None
    /\ ret' = [op |-> "startup", ok |-> TRUE, reason |-> << >>]
    /\ connections' = << >>
    /\ subs' = [c \in Conns |-> << >>]
    /\ ewma_state' = [c \in Conns |-> EmptyDict]
    /\ session' = [c \in Conns |-> NewSession]
    /\ broken' = {}
    /\ sent' = [c \in Conns |-> << >>]
    /\ klines' = << >>
    /\ klines_lock' = None
    /\ emit' = [e \in Emitters |-> IF e = Ticker THEN [IdleEmit EXCEPT !.pc = "sleep"]
                                    ELSE IdleEmit]
    /\ UNCHANGED <<disk, now, ndeposits, nquotes, ntrades, nticks, nframes>>

(***************************************************************************)
(* execute_on_best_touch, one step per critical section.                   *)
(***************************************************************************)
\* The call up to the end of the first critical section: the early return
\* and the copy of the open ids.  With nothing to visit the call returns.
BeginExecute(t, symbol, best_bid, best_ask) ==
    LET ids == IF best_bid = None /\ best_ask = None THEN << >>
               ELSE open_ids(Store, symbol)
    IN  /\ tasks' = [tasks EXCEPT ![t] =
              IF ids = << >> THEN Idle
              ELSE [@ EXCEPT !.pc = "loop", !.symbol = symbol, !.best_bid = best_bid,
                             !.best_ask = best_ask, !.order_ids = ids]]
        /\ ret' = None

ExecuteCall(symbol, best_bid, best_ask) ==
    /\ tasks[Direct].pc = "idle"
    /\ BeginExecute(Direct, symbol, best_bid, best_ask)
    /\ UNCHANGED <<users, balances, orders, open_orders_by_symbol, best_touch, disk,
                   published, ndeposits, nquotes, hubVars>>

\* One iteration of the loop: the critical section, then save_state when the
\* order was filled (`continue` skips it otherwise).
ExecuteStep(t) ==
    /\ tasks[t].pc = "loop"
    /\ LET token_id == Head(tasks[t].order_ids)
           r == execute_one(Store, token_id, tasks[t].best_bid, tasks[t].best_ask)
           rest == Tail(tasks[t].order_ids)
       IN  /\ IF r.filled THEN Commit(r.st) ELSE CommitNoSave(r.st)
           /\ tasks' = [tasks EXCEPT ![t] =
                  IF rest = << >> THEN Idle ELSE [@ EXCEPT !.order_ids = rest]]
           /\ ret' = None
    /\ UNCHANGED <<best_touch, published, ndeposits, nquotes, hubVars>>

(***************************************************************************)
(* handle_best_touch, one step per await.                                  *)
(***************************************************************************)
\* The critical section: store the quote, fold the synthetic best.
HandleBestTouch(exchange, symbol, bid, ask) ==
    /\ tasks[exchange].pc = "idle"
    /\ emit[Book(exchange)].pc = "idle"
    /\ nquotes < MaxQuotes
    /\ best_touch' = put_best_touch(best_touch, exchange, symbol, bid, ask)
    /\ LET best == synthetic_best(best_touch'[symbol])
       IN  tasks' = [tasks EXCEPT ![exchange] =
              [pc |-> "publish", symbol |-> symbol,
               best_bid |-> best.best_bid, best_bid_exchange |-> best.best_bid_exchange,
               best_ask |-> best.best_ask, best_ask_exchange |-> best.best_ask_exchange,
               order_ids |-> << >>]]
    /\ nquotes' = nquotes + 1
    /\ ret' = None
    /\ UNCHANGED <<users, balances, orders, open_orders_by_symbol, disk, published, ndeposits, hubVars>>

\* await execute_on_best_touch(symbol, best_bid, best_ask)
NotifyMatcher(exchange) ==
    /\ tasks[exchange].pc = "match"
    /\ BeginExecute(exchange, tasks[exchange].symbol, tasks[exchange].best_bid,
                    tasks[exchange].best_ask)
    /\ UNCHANGED <<users, balances, orders, open_orders_by_symbol, best_touch, disk,
                   published, ndeposits, nquotes, hubVars>>

(***************************************************************************)
(* main.py: ws_endpoint, one step per client frame.                        *)
(***************************************************************************)
\* decode_access_token(token): the `sub` of a token that verifies, else None.
decode_access_token(token) ==
    IF token # None /\ Val(token).signed THEN Val(token).sub ELSE None

\* A frame of the client that parses to a JSON object, and one that parses
\* to something else (a list, a string, a number).
ClientFrame(action, token, stream, symbol, exchange, interval, half_life) ==
    [kind |-> "object", action |-> action, token |-> token, stream |-> stream,
     symbol |-> symbol, exchange |-> exchange, interval |-> interval,
     half_life |-> half_life]
NotAnObject == [kind |-> "other"]

\* websocket.close(code=1008)
PolicyViolation == 1008
\* The codes with which the server ends a session whose handler raised.
ServerCloseCodes == {1006, 1011}

\* WS_HUB.remove(conn)
RECURSIVE hub_remove(_, _)
hub_remove(registry, c) ==
    IF registry = << >> THEN << >>
    ELSE IF Head(registry) = c THEN Tail(registry)
    ELSE <<Head(registry)>> \o hub_remove(Tail(registry), c)

\* The first frame of websocket c: the handshake of ws_endpoint up to the
\* receive of the loop.
WsFirstFrame(c, frame) ==
    /\ session[c].pc = "new"
    /\ c \notin broken
    /\ nframes[c] < MaxFrames
    /\ nframes' = [nframes EXCEPT ![c] = @ + 1]
    /\ IF frame.kind # "object"
       THEN \* auth_msg.get raises: the handler ends without closing
            /\ \E code \in ServerCloseCodes :
                  session' = [session EXCEPT ![c].pc = "closed", ![c].close_code = Some(code)]
            /\ UNCHANGED <<connections, sent>>
       ELSE IF frame.action # Some("auth") \/ decode_access_token(frame.token) = None
       THEN /\ session' = [session EXCEPT ![c].pc = "closed",
                                          ![c].close_code = Some(PolicyViolation)]
            /\ UNCHANGED <<connections, sent>>
       ELSE /\ connections' = Append(connections, c)
            /\ sent' = [sent EXCEPT ![c] = Append(@, [type |-> "auth", status |-> "ok"])]
            /\ session' = [session EXCEPT ![c].pc = "serving",
                                          ![c].username = decode_access_token(frame.token)]
    /\ UNCHANGED <<subs, ewma_state, broken, klines, klines_lock, now, emit, ntrades, nticks>>
    /\ UNCHANGED paperVars

\* conn.subs without the subscriptions of (stream, symbol).
RECURSIVE Unsubscribed(_, _, _)
Unsubscribed(list, stream, symbol) ==
    IF list = << >> THEN << >>
    ELSE IF Head(list).stream = stream /\ Head(list).symbol = symbol
    THEN Unsubscribed(Tail(list), stream, symbol)
    ELSE <<Head(list)>> \o Unsubscribed(Tail(list), stream, symbol)

\* The passes that iterate the list conn.subs of c keep that list when c
\* binds conn.subs to a new one.
Rebound(c) ==
    [e \in DOMAIN emit |->
        IF /\ emit[e].pc \in {"best_touch", "trades", "klines", "tick", "ewma"}
           /\ emit[e].pass.conns # << >> /\ Head(emit[e].pass.conns) = c
           /\ emit[e].pass.idx > 1 /\ emit[e].pass.own = None
        THEN [emit[e] EXCEPT !.pass.own = Some(subs[c])]
        ELSE emit[e]]

\* A later frame of websocket c: one turn of the loop of ws_endpoint.
WsMessage(c, frame) ==
    /\ session[c].pc = "serving"
    /\ c \notin broken
    /\ nframes[c] < MaxFrames
    /\ (frame.kind = "object" /\ frame.action = Some("subscribe")) => Len(subs[c]) < MaxSubs
    /\ nframes' = [nframes EXCEPT ![c] = @ + 1]
    /\ IF frame.kind # "object"
       THEN \* msg.get raises: finally removes the connection
            /\ \E code \in ServerCloseCodes :
                  session' = [session EXCEPT ![c].pc = "closed", ![c].close_code = Some(code)]
            /\ connections' = hub_remove(connections, c)
            /\ broken' = broken \cup {c}
            /\ UNCHANGED <<subs, sent, emit>>
       ELSE IF frame.action = Some("subscribe")
       THEN /\ subs' = [subs EXCEPT ![c] = Append(@,
                  Subscription(frame.stream, frame.symbol,
                               IF frame.exchange = None THEN Some("all") ELSE frame.exchange,
                               frame.interval, frame.half_life))]
            /\ sent' = [sent EXCEPT ![c] = Append(@,
                  [type |-> "subscribed", stream |-> frame.stream, symbol |-> frame.symbol])]
            /\ UNCHANGED <<connections, session, broken, emit>>
       ELSE IF frame.action = Some("unsubscribe")
       THEN /\ subs' = [subs EXCEPT ![c] = Unsubscribed(@, frame.stream, frame.symbol)]
            /\ emit' = Rebound(c)
            /\ sent' = [sent EXCEPT ![c] = Append(@,
                  [type |-> "unsubscribed", stream |-> frame.stream, symbol |-> frame.symbol])]
            /\ UNCHANGED <<connections, session, broken>>
       ELSE /\ sent' = [sent EXCEPT ![c] = Append(@,
                  [type |-> "error", message |-> "unknown action"])]
            /\ UNCHANGED <<connections, subs, session, broken, emit>>
    /\ UNCHANGED <<ewma_state, klines, klines_lock, now, ntrades, nticks>>
    /\ UNCHANGED paperVars

\* The client of websocket c goes away: from now on a send on c raises.
Break(c) ==
    /\ session[c].pc \in {"new", "serving"}
    /\ c \notin broken
    /\ broken' = broken \cup {c}
    /\ UNCHANGED <<connections, subs, ewma_state, session, sent, klines, klines_lock, now,
                   emit, ntrades, nticks, nframes>>
    /\ UNCHANGED paperVars

\* receive_json raises WebSocketDisconnect: finally removes the connection.
WsDisconnect(c) ==
    /\ session[c].pc \in {"new", "serving"}
    /\ c \in broken
    /\ session' = [session EXCEPT ![c].pc = "closed"]
    /\ connections' = hub_remove(connections, c)
    /\ UNCHANGED <<subs, ewma_state, broken, sent, klines, klines_lock, now, emit,
                   ntrades, nticks, nframes>>
    /\ UNCHANGED paperVars

(***************************************************************************)
(* market.py: handle_trade and kline_tick_loop.  A task gives way to the   *)
(* others only inside conn.send and while it waits for _KLINES_LOCK; a     *)
(* step of the model runs a task from one such point to the next.          *)
(***************************************************************************)
\* conn.send(msg): the frame goes out on the websocket of conn.
Send(c, frame) == sent' = [sent EXCEPT ![c] = Append(@, frame)]

\* The pass of broadcast_kline for the candle of key in kl.
KlinePass(task, kl, key) ==
    [task EXCEPT
        !.pass = NewPass(connections),
        !.ev = Event("broadcast", "klines", key[1], Some(key[2]), _interval_label(key[3]),
                     KlineFrame(key[1], key[2], key[3], kl[KlineIndex(kl, key)].candle))]

\* The pass of broadcast_best_touch for the message msg.
BestTouchPass(symbol, msg) ==
    [IdleEmit EXCEPT !.pc = "best_touch", !.symbol = symbol,
                     !.pass = NewPass(connections),
                     !.ev = Event("broadcast", "best_touch", symbol, None, None, msg)]

\* The pass of broadcast_trade at the head of handle_trade.
TradePass(exchange, symbol, price, qty, ts) ==
    [IdleEmit EXCEPT !.pc = "trades", !.symbol = symbol, !.exchange = exchange,
                     !.price = price, !.qty = qty, !.ts = ts,
                     !.pass = NewPass(connections),
                     !.ev = Event("broadcast", "trades", symbol, Some(exchange), None,
                                  TradeFrame(symbol, exchange, price, qty, ts))]

\* The pass of update_ewma_on_trade(symbol, exchange, price, ts).
EwmaPass(task, exchange) ==
    [task EXCEPT !.pc = "ewma", !.kx = Some(exchange), !.pass = NewPass(connections),
                 !.ev = Event("ewma", "ewma", task.symbol, Some(exchange), None, None)]

\* _update_kline for the interval at position ki, and the pass that
\* publishes its candle.
KlineIteration(task, kl, lock, ki) ==
    LET interval == kline_intervals_seconds[ki]
        kl2 == _update_kline(kl, task.symbol, Val(task.kx), interval,
                             task.price, task.qty, task.ts)
    IN  [task |-> KlinePass([task EXCEPT !.pc = "klines", !.ki = ki], kl2,
                            <<task.symbol, Val(task.kx), interval>>),
         klines |-> kl2, lock |-> lock]

\* The loop of kline_tick_loop for the first of the keys still to visit, and
\* the pass that publishes its candle; with no key left the lock is released
\* and the loop sleeps.
TickIteration(task, kl, lock) ==
    IF task.keys = << >>
    THEN [task |-> [IdleEmit EXCEPT !.pc = "sleep"], klines |-> kl, lock |-> None]
    ELSE LET key == Head(task.keys)
             i == KlineIndex(kl, key)
             kl2 == [kl EXCEPT ![i].candle = roll_candle(@, key[3], task.ts)]
         IN  [task |-> KlinePass([task EXCEPT !.pc = "tick", !.keys = Tail(task.keys)],
                                 kl2, key),
              klines |-> kl2, lock |-> lock]

\* What follows a pass that has served its last subscription.
AfterPass(task, kl, lock) ==
    CASE task.pc = "best_touch" -> [task |-> IdleEmit, klines |-> kl, lock |-> lock]
      [] task.pc = "trades" ->
           [task |-> [task EXCEPT !.pc = "kline_enter", !.kx = Some(task.exchange)],
            klines |-> kl, lock |-> lock]
      [] task.pc = "klines" /\ task.ki < Len(kline_intervals_seconds) ->
           KlineIteration(task, kl, lock, task.ki + 1)
      [] task.pc = "klines" /\ task.ki >= Len(kline_intervals_seconds)
                            /\ task.kx = Some(task.exchange) ->
           [task |-> [task EXCEPT !.pc = "kline_enter", !.kx = Some("all")],
            klines |-> kl, lock |-> None]
      [] task.pc = "klines" /\ task.ki >= Len(kline_intervals_seconds)
                            /\ task.kx # Some(task.exchange) ->
           [task |-> EwmaPass(task, task.exchange), klines |-> kl, lock |-> None]
      [] task.pc = "tick" -> TickIteration(task, kl, lock)
      [] task.pc = "ewma" /\ task.kx = Some(task.exchange) ->
           [task |-> EwmaPass(task, "all"), klines |-> kl, lock |-> lock]
      [] task.pc = "ewma" /\ task.kx # Some(task.exchange) ->
           [task |-> IdleEmit, klines |-> kl, lock |-> lock]

\* Another task waits for _KLINES_LOCK: asyncio.Lock serves its waiters
\* before a task that comes to acquire it.
Waiting(e) == \E o \in Emitters \ {e} : emit[o].pc \in {"kline_enter", "tick_enter"}

\* Task e runs from the position of task to its next send (hit: the
\* connection and the subscription served), to a wait for the lock, or to
\* its end.  woken: e is a waiter to which the lock was released.
RECURSIVE Run(_, _, _, _, _)
Run(e, task, kl, lock, woken) ==
    CASE task.pc \in {"idle", "sleep", "dead", "reconnecting"} ->
           [task |-> task, klines |-> kl, lock |-> lock, hit |-> None]
      [] task.pc \in {"kline_enter", "tick_enter"} ->
           IF lock # None \/ (~woken /\ Waiting(e))
           THEN [task |-> task, klines |-> kl, lock |-> lock, hit |-> None]
           ELSE LET n == IF task.pc = "kline_enter"
                         THEN KlineIteration(task, kl, Some(e), 1)
                         ELSE TickIteration(
                                [task EXCEPT !.keys = [i \in 1..Len(kl) |-> kl[i].key]],
                                kl, Some(e))
                IN  Run(e, n.task, n.klines, n.lock, FALSE)
      [] task.pc \in {"best_touch", "trades", "klines", "tick", "ewma"} ->
           LET r == FindNext(task.pass, subs, task.ev)
           IN  IF r.found
               THEN [task |-> [task EXCEPT !.pass = r.pass], klines |-> kl, lock |-> lock,
                     hit |-> Some([conn |-> r.conn, sub |-> r.sub])]
               ELSE LET n == AfterPass(task, kl, lock)
                    IN  Run(e, n.task, n.klines, n.lock, FALSE)

\* A send raised in task e, which stood at task.  The exception leaves every
\* `async with` and the handler; the listener of a venue catches it, sleeps
\* and connects again, the tick loop has no handler and ends.
Raised(e, task) == [task EXCEPT !.pc = IF e = Ticker THEN "dead" ELSE "reconnecting"]

\* The state after the run r of task e: update_ewma_on_trade stores the
\* state of the key before it sends; a send to a client that went away
\* raises.
Apply(e, r) ==
    /\ klines' = r.klines
    /\ IF r.hit = None
       THEN /\ emit' = [emit EXCEPT ![e] = r.task]
            /\ klines_lock' = r.lock
            /\ UNCHANGED <<ewma_state, sent>>
       ELSE LET c == Val(r.hit).conn
                sub == Val(r.hit).sub
                states == ewma_update(ewma_state[c], sub, r.task.symbol, r.task.price,
                                      r.task.ts)
                frame == IF r.task.pc = "ewma"
                         THEN EwmaFrame(r.task.symbol, sub,
                                Val(states[<<r.task.symbol, sub.exchange, sub.half_life>>].value),
                                r.task.ts)
                         ELSE r.task.ev.data
            IN  /\ ewma_state' = IF r.task.pc = "ewma"
                                 THEN [ewma_state EXCEPT ![c] = states] ELSE ewma_state
                /\ IF c \in broken
                   THEN /\ emit' = [emit EXCEPT ![e] = Raised(e, r.task)]
                        /\ klines_lock' = IF r.lock = Some(e) THEN None ELSE r.lock
                        /\ UNCHANGED sent
                   ELSE /\ Send(c, frame)
                        /\ emit' = [emit EXCEPT ![e] = r.task]
                        /\ klines_lock' = r.lock

\* handle_best_touch after its send: on to the matcher when the pass is
\* over, ended by the exception when the send raised.
AfterSend(t, r) ==
    IF r.hit = None THEN [t EXCEPT !.pc = "match"]
    ELSE IF Val(r.hit).conn \in broken THEN Idle
    ELSE [t EXCEPT !.pc = "sending"]

\* WS_HUB.broadcast_best_touch(symbol, best_bid, best_ask, bid_ex, ask_ex)
BroadcastBestTouch(exchange) ==
    /\ tasks[exchange].pc = "publish"
    /\ published' = [type |-> "best_touch", symbol |-> tasks[exchange].symbol,
                     best_bid |-> tasks[exchange].best_bid,
                     best_ask |-> tasks[exchange].best_ask,
                     best_bid_exchange |-> tasks[exchange].best_bid_exchange,
                     best_ask_exchange |-> tasks[exchange].best_ask_exchange]
    /\ LET r == Run(Book(exchange), BestTouchPass(tasks[exchange].symbol, published'),
                    klines, klines_lock, FALSE)
       IN  /\ Apply(Book(exchange), r)
           /\ tasks' = [tasks EXCEPT ![exchange] = AfterSend(@, r)]
    /\ ret' = None
    /\ UNCHANGED <<users, balances, orders, open_orders_by_symbol, best_touch, disk,
                   ndeposits, nquotes>>
    /\ UNCHANGED <<connections, subs, session, broken, now, ntrades, nticks, nframes>>

\* The send of the pass of broadcast_best_touch returns.
BestTouchStep(exchange) ==
    /\ tasks[exchange].pc = "sending"
    /\ LET r == Run(Book(exchange), emit[Book(exchange)], klines, klines_lock, FALSE)
       IN  /\ Apply(Book(exchange), r)
           /\ tasks' = [tasks EXCEPT ![exchange] = AfterSend(@, r)]
    /\ ret' = None
    /\ UNCHANGED <<users, balances, orders, open_orders_by_symbol, best_touch, disk,
                   published, ndeposits, nquotes>>
    /\ UNCHANGED <<connections, subs, session, broken, now, ntrades, nticks, nframes>>

\* handle_trade(exchange, symbol, price, qty, ts), called by the listener of
\* the venue.
HandleTrade(exchange, symbol, price, qty, ts) ==
    /\ emit[exchange].pc = "idle"
    /\ Book(exchange) = exchange => tasks[exchange].pc = "idle"
    /\ ntrades < MaxTrades
    /\ ntrades' = ntrades + 1
    /\ Apply(exchange, Run(exchange, TradePass(exchange, symbol, price, qty, ts),
                           klines, klines_lock, FALSE))
    /\ UNCHANGED <<connections, subs, session, broken, now, nticks, nframes>>
    /\ UNCHANGED paperVars

\* asyncio.sleep(1) returns and the loop reads the clock, t.
Tick(t) ==
    /\ emit[Ticker].pc = "sleep"
    /\ nticks < MaxTicks
    /\ t > now
    /\ now' = t
    /\ nticks' = nticks + 1
    /\ Apply(Ticker, Run(Ticker, [IdleEmit EXCEPT !.pc = "tick_enter", !.ts = t],
                         klines, klines_lock, FALSE))
    /\ UNCHANGED <<connections, subs, session, broken, ntrades, nframes>>
    /\ UNCHANGED paperVars

\* The send of a pass of _broadcast returns in task e.
BroadcastStep(e) ==
    /\ emit[e].pc \in {"trades", "klines", "tick"}
    /\ Apply(e, Run(e, emit[e], klines, klines_lock, FALSE))
    /\ UNCHANGED <<connections, subs, session, broken, now, ntrades, nticks, nframes>>
    /\ UNCHANGED paperVars

\* The send of a pass of update_ewma_on_trade returns in task e.
EwmaStep(e) ==
    /\ emit[e].pc = "ewma"
    /\ Apply(e, Run(e, emit[e], klines, klines_lock, FALSE))
    /\ UNCHANGED <<connections, subs, session, broken, now, ntrades, nticks, nframes>>
    /\ UNCHANGED paperVars

\* The listener e, whose handler raised, has slept and is connected again.
Reconnect(e) ==
    /\ emit[e].pc = "reconnecting"
    /\ emit' = [emit EXCEPT ![e] = IdleEmit]
    /\ UNCHANGED <<connections, subs, ewma_state, session, broken, sent, klines, klines_lock,
                   now, ntrades, nticks, nframes>>
    /\ UNCHANGED paperVars

\* float(payload.get(key, 0)): a field that is missing reads as 0.
FloatOrZero(field) == IF field = None THEN 0 ELSE Val(field)

\* The payload of a bookTicker message of Binance; a missing field is None.
BookTickerPayload(s, b, a) == [s |-> s, b |-> b, a |-> a]

\* The payload of a trade message of Binance, T in milliseconds.
TradePayload(s, p, q, T) == [s |-> s, p |-> p, q |-> q, T |-> T]

\* One message of the bookTicker stream of Binance: `continue` without a
\* symbol, handle_best_touch otherwise.
BinanceBookTicker(payload) ==
    IF payload.s = None
    THEN UNCHANGED vars
    ELSE HandleBestTouch("binance", Val(payload.s), FloatOrZero(payload.b),
                         FloatOrZero(payload.a))

\* One message of the trade stream of Binance.
BinanceTrade(payload) ==
    IF payload.s = None
    THEN UNCHANGED vars
    ELSE HandleTrade("binance", Val(payload.s), FloatOrZero(payload.p),
                     FloatOrZero(payload.q), FloatOrZero(payload.T) \div 1000)

\* The streaming session of listener e ends with an exception (the
\* connection is lost, a message is no JSON object): except Exception, then
\* asyncio.sleep(2).
SessionDrops(e) ==
    /\ emit[e].pc = "idle"
    /\ e \in Venues => tasks[e].pc = "idle"
    /\ emit' = [emit EXCEPT ![e].pc = "reconnecting"]
    /\ UNCHANGED <<connections, subs, ewma_state, session, broken, sent, klines, klines_lock,
                   now, ntrades, nticks, nframes>>
    /\ UNCHANGED paperVars

\* The venue closes the session of listener e in order: `async for msg in
\* ws` ends without an exception and `while True` calls connect again.
VenueCloses(e) ==
    /\ emit[e].pc = "idle"
    /\ e \in Venues => tasks[e].pc = "idle"
    /\ emit' = [emit EXCEPT ![e].pc = "connecting"]
    /\ UNCHANGED <<connections, subs, ewma_state, session, broken, sent, klines, klines_lock,
                   now, ntrades, nticks, nframes>>
    /\ UNCHANGED paperVars

\* asyncio.sleep(2) of listener e returns and `while True` calls connect.
Backoff(e) ==
    /\ emit[e].pc = "reconnecting"
    /\ emit' = [emit EXCEPT ![e] = [IdleEmit EXCEPT !.pc = "connecting"]]
    /\ UNCHANGED <<connections, subs, ewma_state, session, broken, sent, klines, klines_lock,
                   now, ntrades, nticks, nframes>>
    /\ UNCHANGED paperVars

\* websockets.connect of listener e: the session opens, or connect raises
\* and the listener sleeps again.
Connect(e, ok) ==
    /\ emit[e].pc = "connecting"
    /\ emit' = [emit EXCEPT ![e].pc = IF ok THEN "idle" ELSE "reconnecting"]
    /\ UNCHANGED <<connections, subs, ewma_state, session, broken, sent, klines, klines_lock,
                   now, ntrades, nticks, nframes>>
    /\ UNCHANGED paperVars

\* _KLINES_LOCK is released to the trade handler e that waits for it.
KlineEnter(e) ==
    /\ emit[e].pc = "kline_enter"
    /\ klines_lock = None
    /\ Apply(e, Run(e, emit[e], klines, klines_lock, TRUE))
    /\ UNCHANGED <<connections, subs, session, broken, now, ntrades, nticks, nframes>>
    /\ UNCHANGED paperVars

\* _KLINES_LOCK is released to the tick loop that waits for it.
TickEnter ==
    /\ emit[Ticker].pc = "tick_enter"
    /\ klines_lock = None
    /\ Apply(Ticker, Run(Ticker, emit[Ticker], klines, klines_lock, TRUE))
    /\ UNCHANGED <<connections, subs, session, broken, now, ntrades, nticks, nframes>>
    /\ UNCHANGED paperVars

(***************************************************************************)
(* Specifications.                                                         *)
(***************************************************************************)
\* The paper engine under its callers, for the users Us and the symbols Syms.
NextPaper(Us, Syms) ==
    \/ \E u \in Us, s \in Syms, i \in 1..2, m \in Amounts :
          Deposit(u, split_symbol(s)[i], m)
    \/ \E u \in Us, t \in TokenIds, s \in Syms, d \in Sides,
          p \in Prices, q \in Quantities : PlaceOrder(u, t, s, d, p, q)
    \/ \E u \in Us, t \in TokenIds : CancelOrder(u, t)
    \/ \E s \in Syms, b \in BestPairs : ExecuteCall(s, b[1], b[2])
    \/ ExecuteStep(Direct)

\* Two users trading one symbol.
Next == NextPaper(Users, {BTCUSDT})

Spec == Init /\ [][Next]_vars

\* One user trading two symbols.
NextSymbols == NextPaper({"alice"}, Symbols)

SpecSymbols == Init /\ [][NextSymbols]_vars

\* The two venue handlers over one user's orders on BTCUSDT.
NextMarket ==
    \/ \E m \in Amounts : Deposit("alice", USDT, m)
    \/ \E p \in Prices, q \in Quantities :
          PlaceOrder("alice", "ord-1", BTCUSDT, "buy", p, q)
    \/ \E v \in Venues, s \in Symbols, bid \in QuotePrices, ask \in QuotePrices :
          HandleBestTouch(v, s, bid, ask)
    \/ \E v \in Venues : BroadcastBestTouch(v)
    \/ \E v \in Venues : NotifyMatcher(v)
    \/ \E v \in Venues : ExecuteStep(v)

SpecMarket == Init /\ [][NextMarket]_vars

\* The first caller of split_symbol with the symbol it passes.
SplitSymbol(symbol) ==
    /\ ret = None
    /\ ret' = [op |-> "split_symbol", symbol |-> symbol, value |-> split_symbol(symbol)]
    /\ UNCHANGED <<users, balances, orders, open_orders_by_symbol, best_touch, disk,
                   tasks, published, ndeposits, nquotes, hubVars>>

\* The symbols of the tests of config.py and every string of up to
\* MaxSymbolLen of the letters of the three suffixes and one more.
BTCUSD == <<"B", "T", "C", "U", "S", "D">>
BTCUSDC == <<"B", "T", "C", "U", "S", "D", "C">>
FOOBAR == <<"F", "O", "O", "B", "A", "R">>
SplitInputs ==
    {BTCUSDT, BTCUSD, BTCUSDC, FOOBAR}
    \cup UNION {[1..n -> {"U", "S", "D", "T", "C", "B"}] : n \in 0..MaxSymbolLen}

NextSplit == ret = None /\ \E symbol \in SplitInputs : SplitSymbol(symbol)

SpecSplit == Init /\ [][NextSplit]_vars

\* The paper engine of one user over restarts of the process.
NextRestart ==
    \/ \E u \in Users : Register(u, "hash")
    \/ NextPaper({"alice"}, {BTCUSDT})
    \/ \E u \in {"alice"}, t \in TokenIds : OrderStatus(u, t)
    \/ Startup

SpecRestart == Init /\ [][NextRestart]_vars

\* The client frames of the model.
ValidToken(username) == Some([signed |-> TRUE, sub |-> Some(username)])
ForgedToken == Some([signed |-> FALSE, sub |-> Some("alice")])
AuthFrame(token) == ClientFrame(Some("auth"), token, None, None, None, None, None)
SubscribeFrame(stream, symbol, exchange, interval, half_life) ==
    ClientFrame(Some("subscribe"), None, stream, symbol, exchange, interval, half_life)
UnsubscribeFrame(stream, symbol) ==
    ClientFrame(Some("unsubscribe"), None, stream, symbol, None, None, None)

\* The frames of the websockets Cs: a first frame among Firsts, later frames
\* among Laters.
NextClients(Cs, Firsts, Laters) ==
    \/ \E c \in Cs, f \in Firsts : WsFirstFrame(c, f)
    \/ \E c \in Cs, f \in Laters : WsMessage(c, f)

\* The clients of the websockets Cs go away.
NextLeaves(Cs) ==
    \/ \E c \in Cs : Break(c)
    \/ \E c \in Cs : WsDisconnect(c)

NextSessions(Cs, Firsts, Laters) == NextClients(Cs, Firsts, Laters) \/ NextLeaves(Cs)

\* The trade handlers of the venues Vs on BTCUSDT.
NextTrades(Vs, Trades) ==
    \/ \E v \in Vs, tr \in Trades : HandleTrade(v, BTCUSDT, tr.price, tr.qty, tr.ts)
    \/ \E v \in Vs : BroadcastStep(v)

NextEwma(Vs) == \E v \in Vs : EwmaStep(v)

\* The listeners Es connect again after an exception.
NextReconnects(Es) == \E e \in Es : Reconnect(e)

\* The candle tick loop, ticking at the times Ts.
NextTicks(Ts) ==
    \/ \E t \in Ts : Tick(t)
    \/ BroadcastStep(Ticker)

\* The waits for _KLINES_LOCK of the trade handlers of Vs and of the tick loop.
NextLock(Vs) ==
    \/ \E v \in Vs : KlineEnter(v)
    \/ TickEnter

\* The quote handlers of the venues Vs on the symbols Syms, with no order to
\* match.
NextQuotes(Vs, Syms, Bids, Asks) ==
    \/ \E v \in Vs, sym \in Syms, bid \in Bids, ask \in Asks :
          HandleBestTouch(v, sym, bid, ask)
    \/ \E v \in Vs : BroadcastBestTouch(v)
    \/ \E v \in Vs : BestTouchStep(v)
    \/ \E v \in Vs : NotifyMatcher(v)

\* No handler stands between two of its awaits that do not suspend it: the
\* event loop gives the turn to another task only from a send or from the
\* end of a handler.
Quiet == \A t \in Tasks : tasks[t].pc \in {"idle", "sending"}

\* Matching under two venues: alice's buy order at 2, a client that listens
\* to the best touch of BTCUSDT, and the quotes of both venues on it.
NextStale ==
    \/ Quiet /\ NextClients({"c1"}, {AuthFrame(ValidToken("alice"))},
                             {SubscribeFrame("best_touch", BTCUSDT, None, None, None)})
    \/ Quiet /\ Deposit("alice", USDT, 7)
    \/ Quiet /\ PlaceOrder("alice", "ord-1", BTCUSDT, "buy", 2, 3)
    \/ Quiet /\ \E v \in Venues, ask \in QuotePrices : HandleBestTouch(v, BTCUSDT, 1, ask)
    \/ \E v \in Venues : BroadcastBestTouch(v)
    \/ Quiet /\ \E v \in Venues : BestTouchStep(v)
    \/ \E v \in Venues : NotifyMatcher(v)
    \/ \E v \in Venues : ExecuteStep(v)

SpecStale == Init /\ [][NextStale]_vars

\* A trade as a venue reports it.
Trade(price, qty, ts) == [price |-> price, qty |-> qty, ts |-> ts]
CandleTrades == {Trade(10, 2, 0), Trade(8, 0, 12)}

\* Candles: one venue's trades, the tick loop, one client of the 10s candles.
NextCandles ==
    \/ NextSessions({"c1"}, {AuthFrame(ValidToken("alice"))},
                    {SubscribeFrame("klines", BTCUSDT, Some("binance"), _interval_label(10), None)})
    \/ NextTrades({"binance"}, CandleTrades)
    \/ NextLock({"binance"})
    \/ NextReconnects({"binance"})
    \/ NextTicks({5, 10})

SpecCandles == Init /\ [][NextCandles]_vars

\* Labels: the candles of Binance for a client that names the one-minute
\* interval by its label 1m or by its seconds.
NextLabels ==
    \/ NextClients({"c1"}, {AuthFrame(ValidToken("alice"))},
                   {SubscribeFrame("klines", BTCUSDT, Some("binance"), _interval_label(60), None),
                    SubscribeFrame("klines", BTCUSDT, Some("binance"), <<60, "s">>, None)})
    \/ NextTrades({"binance"}, CandleTrades)

SpecLabels == Init /\ [][NextLabels]_vars

\* Fan-out: the quotes and the trades of OKX sent to a client that subscribes
\* and unsubscribes.
NextFanout ==
    \/ NextClients({"c1"}, {AuthFrame(ValidToken("alice"))},
                   {SubscribeFrame("klines", BTCUSDT, Some("okx"), _interval_label(60), None),
                    SubscribeFrame("best_touch", ETHUSDT, None, None, None),
                    SubscribeFrame("trades", BTCUSDT, None, None, None),
                    UnsubscribeFrame("klines", BTCUSDT)})
    \/ NextTrades({"okx"}, {Trade(10, 2, 0)})
    \/ NextQuotes({"okx"}, {ETHUSDT}, {1}, {2})

SpecFanout == Init /\ [][NextFanout]_vars

\* Isolation: the trades of Binance sent to two clients, the first of which
\* may go away.
NextIsolation ==
    \/ NextClients(Conns, {AuthFrame(ValidToken("alice"))},
                   {SubscribeFrame("trades", BTCUSDT, None, None, None)})
    \/ NextLeaves({"c1"})
    \/ NextTrades({"binance"}, {Trade(10, 2, 0)})
    \/ NextReconnects({"binance"})

SpecIsolation == Init /\ [][NextIsolation]_vars

\* EWMA: the trades of Binance on BTCUSDT and one client with ewma
\* subscriptions of half-life 10, -10 and 0.
EwmaTrades == {Trade(100, 1, 0), Trade(110, 1, 10)}

NextSmoothing ==
    \/ NextClients({"c1"}, {AuthFrame(ValidToken("alice"))},
                   {SubscribeFrame("ewma", BTCUSDT, None, None, Some(10)),
                    SubscribeFrame("ewma", BTCUSDT, Some("binance"), None, Some(10)),
                    SubscribeFrame("ewma", BTCUSDT, Some("okx"), None, Some(10)),
                    SubscribeFrame("ewma", BTCUSDT, Some("binance"), None, Some(0 - 10)),
                    SubscribeFrame("ewma", BTCUSDT, Some("binance"), None, Some(0)),
                    SubscribeFrame("ewma", BTCUSDT, Some("binance"), None, None)})
    \/ \E tr \in EwmaTrades : HandleTrade("binance", BTCUSDT, tr.price, tr.qty, tr.ts)
    \/ NextEwma({"binance"})

SpecSmoothing == Init /\ [][NextSmoothing]_vars

\* EWMA over an unsubscribe: one client that subscribes to the EWMA of
\* Binance with half-life 10 and unsubscribes, under two trades.
NextResubscribe ==
    \/ NextClients({"c1"}, {AuthFrame(ValidToken("alice"))},
                   {SubscribeFrame("ewma", BTCUSDT, Some("binance"), None, Some(10)),
                    UnsubscribeFrame("ewma", BTCUSDT)})
    \/ \E tr \in {Trade(100, 1, 10), Trade(110, 1, 20)} :
          HandleTrade("binance", BTCUSDT, tr.price, tr.qty, tr.ts)
    \/ NextEwma({"binance"})

SpecResubscribe == Init /\ [][NextResubscribe]_vars

\* The listeners of the venues over the ends of their sessions, with a
\* client of the trades whose sends may fail.
Listeners == {"binance", Book("binance"), "okx"}

NextFeeds ==
    \/ NextSessions({"c1"}, {AuthFrame(ValidToken("alice"))},
                    {SubscribeFrame("trades", BTCUSDT, None, None, None)})
    \/ NextTrades(Venues, {Trade(10, 2, 0)})
    \/ \E e \in Listeners : SessionDrops(e)
    \/ \E e \in Listeners : VenueCloses(e)
    \/ \E e \in Listeners : Backoff(e)
    \/ \E e \in Listeners, ok \in BOOLEAN : Connect(e, ok)

SpecFeeds == Init /\ [][NextFeeds]_vars

\* Matching behind the publication: alice's buy order at 2, the quotes of
\* Binance on BTCUSDT, and a client that listens to the best touch and may
\* go away.
NextNotify ==
    \/ Quiet /\ NextClients({"c1"}, {AuthFrame(ValidToken("alice"))},
                             {SubscribeFrame("best_touch", BTCUSDT, None, None, None)})
    \/ Quiet /\ NextLeaves({"c1"})
    \/ Quiet /\ Deposit("alice", USDT, 7)
    \/ Quiet /\ PlaceOrder("alice", "ord-1", BTCUSDT, "buy", 2, 3)
    \/ Quiet /\ \E ask \in QuotePrices : HandleBestTouch("binance", BTCUSDT, 1, ask)
    \/ BroadcastBestTouch("binance")
    \/ Quiet /\ BestTouchStep("binance")
    \/ NotifyMatcher("binance")
    \/ ExecuteStep("binance")
    \/ Quiet /\ Reconnect(Book("binance"))

SpecNotify == Init /\ [][NextNotify]_vars

\* Orders against the book: alice's deposits, orders and cancels, and the
\* quotes of Binance on BTCUSDT, with no client connected.
NextResting ==
    \/ Quiet /\ \E asset \in {BTC, USDT} : Deposit("alice", asset, 7)
    \/ Quiet /\ \E t \in TokenIds, d \in Sides, p \in Prices :
                    PlaceOrder("alice", t, BTCUSDT, d, p, 3)
    \/ Quiet /\ \E t \in TokenIds : CancelOrder("alice", t)
    \/ Quiet /\ \E bid \in {1}, ask \in QuotePrices :
                    HandleBestTouch("binance", BTCUSDT, bid, ask)
    \/ BroadcastBestTouch("binance")
    \/ NotifyMatcher("binance")
    \/ ExecuteStep("binance")

SpecResting == Init /\ [][NextResting]_vars

\* Decoding: the messages of Binance, complete or with a field missing,
\* over alice's buy order at 2.
NextDecode ==
    \/ Quiet /\ Deposit("alice", USDT, 7)
    \/ Quiet /\ PlaceOrder("alice", "ord-1", BTCUSDT, "buy", 2, 3)
    \/ Quiet /\ \E s \in {None, Some(BTCUSDT)}, b \in {None, Some(1)}, a \in {None, Some(2)} :
                    BinanceBookTicker(BookTickerPayload(s, b, a))
    \/ Quiet /\ \E s \in {None, Some(BTCUSDT)}, p \in {None, Some(10)}, T \in {None, Some(12000)} :
                    BinanceTrade(TradePayload(s, p, Some(2), T))
    \/ BroadcastBestTouch("binance")
    \/ NotifyMatcher("binance")
    \/ ExecuteStep("binance")

SpecDecode == Init /\ [][NextDecode]_vars

\* Sessions: two websockets whose first frame may be a valid or a forged
\* auth, a subscribe or a JSON value that is no object, under the trades of
\* Binance.
NextAdmission ==
    \/ NextSessions(Conns,
                    {AuthFrame(ValidToken("alice")), AuthFrame(ForgedToken), AuthFrame(None),
                     SubscribeFrame("trades", BTCUSDT, None, None, None), NotAnObject},
                    {SubscribeFrame("trades", BTCUSDT, None, None, None), NotAnObject})
    \/ NextTrades({"binance"}, {Trade(10, 2, 0)})
    \/ NextReconnects({"binance"})

SpecAdmission == Init /\ [][NextAdmission]_vars

(***************************************************************************)
(* Properties.                                                             *)
(***************************************************************************)
OrderIds == DOMAIN orders

\* Some step of the matcher loop / some call of cancel_order.
SomeExecuteStep == \E tk \in Tasks : ExecuteStep(tk)
SomeCancelOrder == \E u \in Users, t \in TokenIds : CancelOrder(u, t)

\* The asset an order reserves and the amount place_order must reserve for it.
ReservedAsset(symbol, side) ==
    IF side = "buy" THEN split_symbol(symbol)[2] ELSE split_symbol(symbol)[1]
RequiredReserve(side, price, qty) == IF side = "buy" THEN price * qty ELSE qty

\* Every amount of b2 equals that of b1, but for the changes dTotal and
\* dAvail (functions of user and asset).
AmountsMoved(b1, b2, dTotal(_, _), dAvail(_, _)) ==
    \A u \in Users, a \in Assets :
        /\ BalanceOf(b2, u, a).total = BalanceOf(b1, u, a).total + dTotal(u, a)
        /\ BalanceOf(b2, u, a).available = BalanceOf(b1, u, a).available + dAvail(u, a)

AmountsUnchanged(b1, b2) ==
    \A u \in Users, a \in Assets : BalanceOf(b2, u, a) = BalanceOf(b1, u, a)

\* ids with the one occurrence of token_id taken out, the rest in place.
RemovedFrom(ids, token_id, ids2) ==
    \E i \in 1..Len(ids) :
        /\ ids[i] = token_id
        /\ ids2 = SubSeq(ids, 1, i - 1) \o SubSeq(ids, i + 1, Len(ids))
        /\ \A j \in 1..Len(ids2) : ids2[j] # token_id

C2_Step ==
    \A t \in TokenIds :
        /\ t \in OrderIds => t \in DOMAIN orders'
        /\ (t \notin OrderIds /\ t \in DOMAIN orders') => orders'[t].status = "open"
        /\ (t \in OrderIds /\ orders'[t].status # orders[t].status) =>
              /\ orders[t].status = "open"
              /\ \/ orders'[t].status = "filled" /\ SomeExecuteStep
                 \/ orders'[t].status = "cancelled" /\ SomeCancelOrder
        /\ (t \in OrderIds /\ orders[t].status \in {"filled", "cancelled"}) =>
              /\ orders'[t].status = orders[t].status
              /\ orders'[t].filled_price = orders[t].filled_price
              /\ orders'[t].reserved_amount = orders[t].reserved_amount

\* C2, over every step of the program: orders are created open, leave open only by a fill or a cancel, and never change once filled or cancelled.
C2_StatusTransitions == [][C2_Step]_vars

\* One order was filled and one was cancelled.
C2_Witness ==
    /\ \E t \in OrderIds : orders[t].status = "filled"
    /\ \E t \in OrderIds : orders[t].status = "cancelled"

\* Whether order o crosses the bests, and the price it then fills at.
Crosses(o, best_bid, best_ask) ==
    \/ o.side = "buy" /\ best_ask # None /\ Val(best_ask) <= o.price
    \/ o.side = "sell" /\ best_bid # None /\ Val(best_bid) >= o.price
CrossPrice(o, best_bid, best_ask) == IF o.side = "buy" THEN best_ask ELSE best_bid

\* What a whole call leaves of the orders of store st.
C3_Call(st, symbol, best_bid, best_ask) ==
    LET after == execute_on_best_touch(st, symbol, best_bid, best_ask).orders
    IN  \A t \in DOMAIN st.orders :
          LET o == st.orders[t]
          IN  IF o.symbol = symbol /\ o.status = "open" /\ Crosses(o, best_bid, best_ask)
              THEN after[t] = [o EXCEPT !.status = "filled",
                                        !.filled_price = CrossPrice(o, best_bid, best_ask)]
              ELSE after[t] = o

\* What one iteration of the loop, for the id at the head, does to the orders.
C3_Step ==
    \A tk \in Tasks : ExecuteStep(tk) =>
        LET t == Head(tasks[tk].order_ids)
            bb == tasks[tk].best_bid
            ba == tasks[tk].best_ask
        IN  /\ \A t2 \in OrderIds \ {t} : orders'[t2] = orders[t2]
            /\ t \in OrderIds =>
                 IF orders[t].status = "open" /\ Crosses(orders[t], bb, ba)
                 THEN /\ orders[t].symbol = tasks[tk].symbol
                      /\ orders'[t] = [orders[t] EXCEPT
                            !.status = "filled",
                            !.filled_price = CrossPrice(orders[t], bb, ba)]
                 ELSE orders'[t] = orders[t]

\* C3: execute_on_best_touch fills an open buy of its symbol iff best_ask is
\* present and <= the limit, at best_ask, and an open sell iff best_bid is
\* present and >= the limit, at best_bid; a filled buy is never priced above
\* its limit nor a filled sell below it; other symbols' orders are untouched.
C3_FillRule ==
    /\ [](\A s \in Symbols, bb \in {None} \cup {Some(x) : x \in Prices},
             ba \in {None} \cup {Some(x) : x \in Prices} : C3_Call(Store, s, bb, ba))
    /\ [](\A t \in OrderIds : orders[t].status = "filled" =>
             /\ orders[t].filled_price # None
             /\ orders[t].side = "buy" => Val(orders[t].filled_price) <= orders[t].price
             /\ orders[t].side = "sell" => Val(orders[t].filled_price) >= orders[t].price)
    /\ [][C3_Step]_vars

\* A buy filled below its limit next to an open order of the other symbol.
C3_Witness ==
    \E t1, t2 \in OrderIds :
        /\ orders[t1].status = "filled" /\ orders[t1].side = "buy"
        /\ Val(orders[t1].filled_price) < orders[t1].price
        /\ orders[t2].status = "open" /\ orders[t2].symbol # orders[t1].symbol

\* C4: a fill of an order with quantity q, reserve r and fill price p moves
\* the owner's balances by exactly: buy: quote.total - p*q, quote.available
\* + (r - p*q), base.total + q, base.available + q; sell: base.total - q,
\* quote.total + p*q, quote.available + p*q; nothing else moves.
C4_Step ==
    \A t \in OrderIds :
        (orders[t].status = "open" /\ orders'[t].status = "filled") =>
            LET o == orders[t]
                p == Val(orders'[t].filled_price)
                q == o.quantity
                r == o.reserved_amount
                base == split_symbol(o.symbol)[1]
                quote == split_symbol(o.symbol)[2]
                dTotal(u, a) ==
                    IF u # o.username THEN 0
                    ELSE IF o.side = "buy"
                         THEN (IF a = quote THEN 0 - p * q ELSE 0) + (IF a = base THEN q ELSE 0)
                         ELSE (IF a = base THEN 0 - q ELSE 0) + (IF a = quote THEN p * q ELSE 0)
                dAvail(u, a) ==
                    IF u # o.username THEN 0
                    ELSE IF o.side = "buy"
                         THEN (IF a = quote THEN r - p * q ELSE 0) + (IF a = base THEN q ELSE 0)
                         ELSE IF a = quote THEN p * q ELSE 0
            IN  AmountsMoved(balances, balances', dTotal, dAvail)

\* C4, over every step of the program: a fill moves the owner's balances by exactly the amounts above and moves nothing else.
C4_FillBalances == [][C4_Step]_vars

\* A buy was filled below its limit: part of its reservation came back.
C4_Witness ==
    \E t \in OrderIds :
        /\ orders[t].status = "filled" /\ orders[t].side = "buy"
        /\ orders[t].reserved_amount > Val(orders[t].filled_price) * orders[t].quantity

\* C5: a successful place_order takes exactly r from the owner's available
\* balance of the reserved asset (r = price*quantity of the quote for a buy,
\* r = quantity of the base for a sell) and nothing else; every total is
\* unchanged; the new order is open with reserved_amount = r; its token_id is
\* appended at the end of open_orders_by_symbol[symbol].
C5_Step ==
    \A u \in Users, t \in TokenIds, s \in Symbols, d \in Sides, p \in Prices, q \in Quantities :
        (ret' # None /\ ret'.op = "place_order" /\ ret'.ok /\ PlaceOrder(u, t, s, d, p, q)) =>
            LET r == RequiredReserve(d, p, q)
                asset == ReservedAsset(s, d)
                dTotal(u2, a) == 0
                dAvail(u2, a) == IF u2 = u /\ a = asset THEN 0 - r ELSE 0
                before == IF s \in DOMAIN open_orders_by_symbol
                          THEN open_orders_by_symbol[s] ELSE << >>
            IN  /\ AmountsMoved(balances, balances', dTotal, dAvail)
                /\ t \notin OrderIds
                /\ DOMAIN orders' = OrderIds \cup {t}
                /\ \A t2 \in OrderIds : orders'[t2] = orders[t2]
                /\ orders'[t].status = "open"
                /\ orders'[t].reserved_amount = r
                /\ orders'[t].username = u /\ orders'[t].symbol = s
                /\ orders'[t].side = d /\ orders'[t].price = p /\ orders'[t].quantity = q
                /\ open_orders_by_symbol'[s] = Append(before, t)
                /\ \A s2 \in DOMAIN open_orders_by_symbol \ {s} :
                      open_orders_by_symbol'[s2] = open_orders_by_symbol[s2]

\* C5, over every step of the program: a successful place_order reserves exactly r, keeps every total, and records and indexes the open order.
C5_PlaceReserves == [][C5_Step]_vars

\* place_order has just accepted a second order behind an open one.
C5_Witness ==
    /\ ret # None /\ ret.op = "place_order" /\ ret.ok
    /\ \E s \in DOMAIN open_orders_by_symbol : Len(open_orders_by_symbol[s]) = 2

\* C6: place_order is rejected, creating no order and leaving every order,
\* every balance amount and the open-order index as they were, whenever the
\* token_id is already used (by any user, in any status) or the owner's
\* available balance of the reserved asset is below the required reserve.
C6_Rejects ==
    \A u \in Users, t \in TokenIds, s \in Symbols, d \in Sides, p \in Prices, q \in Quantities :
        (\/ t \in OrderIds
         \/ BalanceOf(balances, u, ReservedAsset(s, d)).available < RequiredReserve(d, p, q))
        => LET r == place_order(Store, u, t, s, d, p, q)
           IN  /\ ~r.ok
               /\ r.st.orders = orders
               /\ r.st.open_orders_by_symbol = open_orders_by_symbol
               /\ AmountsUnchanged(balances, r.st.balances)

\* What a call that returns a rejection has done to the state.
C6_Step ==
    (ret' # None /\ ret'.op = "place_order" /\ ~ret'.ok) =>
        /\ orders' = orders
        /\ open_orders_by_symbol' = open_orders_by_symbol
        /\ AmountsUnchanged(balances, balances')
        /\ \/ ret'.reason = <<"token_id already exists">>
           \/ \E a \in Assets : ret'.reason = <<"insufficient ">> \o a \o <<" balance">>

\* C6, in every reachable state and over every step of the program: place_order on a used token_id or with too little available balance is rejected, and a rejected place_order changes nothing.
C6_PlaceRejected == []C6_Rejects /\ [][C6_Step]_vars

\* place_order has just refused a used token_id while an order is filled or
\* cancelled.
C6_Witness ==
    /\ ret # None /\ ret.op = "place_order" /\ ~ret.ok
    /\ ret.reason = <<"token_id already exists">>
    /\ \E t \in OrderIds : orders[t].status # "open"

\* C7: a successful cancel_order sets the order's status to cancelled, adds
\* exactly its reserved_amount to the available balance of the asset it
\* reserved, leaves every total unchanged, and takes its token_id out of
\* open_orders_by_symbol[symbol], the other ids staying in their order.
C7_Step ==
    \A u \in Users, t \in TokenIds :
        (ret' # None /\ ret'.op = "cancel_order" /\ ret'.ok /\ CancelOrder(u, t)) =>
            LET o == orders[t]
                asset == ReservedAsset(o.symbol, o.side)
                dTotal(u2, a) == 0
                dAvail(u2, a) == IF u2 = o.username /\ a = asset THEN o.reserved_amount ELSE 0
            IN  /\ o.status = "open" /\ o.username = u
                /\ orders' = [orders EXCEPT ![t].status = "cancelled"]
                /\ AmountsMoved(balances, balances', dTotal, dAvail)
                /\ RemovedFrom(open_orders_by_symbol[o.symbol], t,
                               open_orders_by_symbol'[o.symbol])
                /\ \A s2 \in DOMAIN open_orders_by_symbol \ {o.symbol} :
                      open_orders_by_symbol'[s2] = open_orders_by_symbol[s2]

\* C7, over every step of the program: a successful cancel_order marks the order cancelled, gives back exactly its reserve and unlists it.
C7_CancelReleases == [][C7_Step]_vars

\* cancel_order has just succeeded and another id is still in the index.
C7_Witness ==
    /\ ret # None /\ ret.op = "cancel_order" /\ ret.ok
    /\ \E t \in OrderIds : orders[t].status = "cancelled" /\ orders[t].reserved_amount > 0
    /\ \E s \in DOMAIN open_orders_by_symbol : Len(open_orders_by_symbol[s]) = 1

\* C8: cancel_order fails and changes no order, no balance and no index
\* entry when the token_id is unknown, the caller is not the owner, or the
\* order is not open; so a reservation is never released twice.
C8_Step ==
    \A u \in Users, t \in TokenIds :
        (/\ \/ t \notin OrderIds
            \/ orders[t].username # u
            \/ orders[t].status # "open"
         /\ ret' # None /\ ret'.op = "cancel_order"
         /\ CancelOrder(u, t))
        => /\ ~ret'.ok
           /\ orders' = orders
           /\ balances' = balances
           /\ open_orders_by_symbol' = open_orders_by_symbol

\* C8, over every step of the program: cancel_order of an unknown, foreign or no longer open order fails and changes nothing.
C8_CancelRejected == [][C8_Step]_vars

\* cancel_order has just refused an order that was already cancelled.
C8_Witness ==
    /\ ret # None /\ ret.op = "cancel_order" /\ ~ret.ok
    /\ ret.reason = <<"order is not open">>
    /\ \E t \in OrderIds : orders[t].status = "cancelled"

\* The optional bests a call of execute_on_best_touch may be given.
OptPrices == {None} \cup {Some(x) : x \in Prices}

\* C9: running execute_on_best_touch again with the same symbol and bests
\* right after a run changes no order, balance or index entry; and a run in
\* which no open order of the symbol crosses changes nothing.
C9_Idempotent ==
    \A s \in Symbols, bb \in OptPrices, ba \in OptPrices :
        LET once == execute_on_best_touch(Store, s, bb, ba)
        IN  /\ execute_on_best_touch(once, s, bb, ba) = once
            /\ (\A t \in OrderIds :
                   ~(orders[t].symbol = s /\ orders[t].status = "open"
                     /\ Crosses(orders[t], bb, ba)))
               => once = Store

\* A run has filled one order and a run with other bests would fill another.
C9_Witness ==
    /\ \E t \in OrderIds : orders[t].status = "filled"
    /\ \E s \in Symbols, bb \in OptPrices, ba \in OptPrices :
          execute_on_best_touch(Store, s, bb, ba) # Store

\* The quote of a venue in a per-symbol map, and the positions of the map
\* whose bid is the highest / whose ask is the lowest.
QuotesOf(per_symbol, exchange) ==
    {i \in 1..Len(per_symbol) : per_symbol[i].exchange = exchange}
TopBids(per_symbol) ==
    {i \in 1..Len(per_symbol) :
        \A j \in 1..Len(per_symbol) : Val(per_symbol[j].best_bid) <= Val(per_symbol[i].best_bid)}
LowAsks(per_symbol) ==
    {i \in 1..Len(per_symbol) :
        \A j \in 1..Len(per_symbol) : Val(per_symbol[j].best_ask) >= Val(per_symbol[i].best_ask)}
First(S) == CHOOSE i \in S : \A j \in S : i <= j

C10_Step ==
    /\ \A v \in Venues, s \in Symbols, bid \in QuotePrices, ask \in QuotePrices :
          HandleBestTouch(v, s, bid, ask) =>
              LET per == best_touch'[s]
                  old == IF s \in DOMAIN best_touch THEN best_touch[s] ELSE << >>
                  ib == First(TopBids(per))
                  ia == First(LowAsks(per))
              IN  /\ \E i \in 1..Len(per) :
                        /\ QuotesOf(per, v) = {i}
                        /\ per[i].best_bid = Some(bid) /\ per[i].best_ask = Some(ask)
                  /\ \/ QuotesOf(old, v) = {} /\ Len(per) = Len(old) + 1
                     \/ QuotesOf(old, v) # {} /\ Len(per) = Len(old)
                  /\ \A i \in 1..Len(old) :
                        old[i].exchange # v => per[i] = old[i]
                  /\ \A s2 \in DOMAIN best_touch \ {s} : best_touch'[s2] = best_touch[s2]
                  /\ DOMAIN best_touch' = DOMAIN best_touch \cup {s}
                  /\ tasks'[v].symbol = s
                  /\ tasks'[v].best_bid = per[ib].best_bid
                  /\ tasks'[v].best_bid_exchange = per[ib].exchange
                  /\ tasks'[v].best_ask = per[ia].best_ask
                  /\ tasks'[v].best_ask_exchange = per[ia].exchange
    /\ \A v \in Venues :
          BroadcastBestTouch(v) =>
              /\ published'.type = "best_touch"
              /\ published'.symbol = tasks[v].symbol
              /\ published'.best_bid = tasks[v].best_bid
              /\ published'.best_bid_exchange = tasks[v].best_bid_exchange
              /\ published'.best_ask = tasks[v].best_ask
              /\ published'.best_ask_exchange = tasks[v].best_ask_exchange
              /\ best_touch' = best_touch

\* C10: handle_best_touch stores the new quote for (symbol, venue), keeps the
\* quotes of other venues and other symbols, and publishes for the symbol the
\* highest bid and the lowest ask of the venues' latest quotes, each tagged
\* with the first venue of the per-symbol map that attains it.
C10_SyntheticBest == [][C10_Step]_vars

\* A frame went out whose bid and ask come from different venues, the second
\* venue of the map having tied the first on the bid.
C10_Witness ==
    /\ published # None
    /\ published.best_bid_exchange # published.best_ask_exchange
    /\ published.symbol \in DOMAIN best_touch
    /\ LET per == best_touch[published.symbol]
       IN  /\ Len(per) = 2
           /\ per[1].best_bid = per[2].best_bid
           /\ published.best_bid_exchange = per[1].exchange

(***************************************************************************)
(* C11: the candles of _KLINES.                                            *)
(***************************************************************************)
\* The candle of every key is aligned to its interval, spans it, keeps its
\* open and its close between its low and its high, and has no negative
\* volume.
WellFormed(candle, interval) ==
    /\ candle.start % interval = 0
    /\ candle.end - candle.start = interval
    /\ candle.low <= candle.open /\ candle.open <= candle.high
    /\ candle.low <= candle.close /\ candle.close <= candle.high
    /\ candle.volume >= 0

\* C11: after any interleaving of trades and ticks, every active candle has
\* start % interval = 0, end - start = interval, low <= open <= high,
\* low <= close <= high and volume >= 0.
C11_CandleInvariants ==
    \A i \in 1..Len(klines) : WellFormed(klines[i].candle, klines[i].key[3])

\* A candle that two trades at different prices went into, beside a candle
\* that a tick rolled from the close 10 of the one before.
C11_Witness ==
    /\ \E i \in 1..Len(klines) : klines[i].candle.low < klines[i].candle.high
    /\ \E j \in 1..Len(klines) :
          /\ klines[j].candle.start = 10
          /\ klines[j].candle.open = 10
          /\ klines[j].candle.volume = 0

(***************************************************************************)
(* C12: what a tick does to the candles.                                   *)
(***************************************************************************)
\* The candle the tick at time t is to leave in the place of candle.
C12_Rolled(candle, interval, t) ==
    IF candle.end <= t
    THEN [start |-> candle.end, end |-> candle.end + interval, open |-> candle.close,
          high |-> candle.close, low |-> candle.close, close |-> candle.close,
          volume |-> 0]
    ELSE candle

\* The step in which a tick ends, and the keys it had not visited before
\* that step.
C12_Step ==
    LET task == emit[Ticker]
        ends == /\ emit'[Ticker].pc \in {"sleep", "dead"}
                /\ (task.pc \in {"tick", "tick_enter"} \/ nticks' # nticks)
        unvisited == IF task.pc = "tick" THEN task.keys
                     ELSE [i \in 1..Len(klines) |-> klines[i].key]
    IN  ends => \A i \in 1..Len(unvisited) :
                   LET k == KlineIndex(klines, unvisited[i])
                   IN  klines'[k].candle = C12_Rolled(klines[k].candle, unvisited[i][3], now')

\* C12: on a tick at time now, every active candle with end <= now is
\* replaced by the candle that starts at its end, spans the interval, has
\* open = high = low = close = the previous close and volume 0; a candle with
\* end > now is unchanged.
C12_TickRolls == [][C12_Step]_vars

(***************************************************************************)
(* C13: the tick loop.                                                     *)
(***************************************************************************)
\* C13: the tick loop never stops, also when a send to a client socket
\* fails.
C13_TickLoopRuns == emit[Ticker].pc # "dead"

(***************************************************************************)
(* C14: the filter of a fan-out pass.                                      *)
(***************************************************************************)
\* The subscription sub asks for the frame f.
C14_Corresponds(sub, f) ==
    /\ sub.stream = f.type
    /\ sub.symbol = f.symbol
    /\ f.type # "best_touch" => sub.exchange \in {Some("all"), Some(f.exchange)}
    /\ f.type = "klines" => sub.interval = f.interval

\* The frame a step sends on websocket c, None when it sends none.
SentOn(c) ==
    IF Len(sent'[c]) = Len(sent[c]) + 1 THEN Some(sent'[c][Len(sent'[c])]) ELSE None

\* A frame of a fan-out pass goes out on c only for the subscription that the
\* pass has reached in the list of c it iterates.
C14_Step ==
    \A c \in Conns :
        LET f == SentOn(c)
        IN  (f # None /\ Val(f).type \in {"best_touch", "trades", "klines"}) =>
               \E e \in Emitters :
                  LET pass == emit'[e].pass
                      list == PassList(pass, subs)
                  IN  /\ emit'[e].ev # None /\ emit'[e].ev.data = Val(f)
                      /\ pass.conns # << >> /\ Head(pass.conns) = c
                      /\ pass.idx - 1 \in 1..Len(list)
                      /\ C14_Corresponds(list[pass.idx - 1], Val(f))

Unserved(task) == {task.pass.conns[i] : i \in 2..Len(task.pass.conns)}

\* C15: when the send to one registered connection fails, every other
\* registered connection with a matching subscription still receives the
\* event: no pass of _broadcast is ended by an exception while a registered
\* connection it had not reached, whose client is there, holds a
\* subscription for its event.
C15_Isolation ==
    \A e \in Emitters :
        (emit[e].pc \in {"reconnecting", "dead"} /\ emit[e].ev.kind = "broadcast") =>
            \A c \in Unserved(emit[e]) :
                ~ /\ c \notin broken
                  /\ \E i \in 1..Len(connections) : connections[i] = c
                  /\ \E i \in 1..Len(subs[c]) : C14_Corresponds(subs[c][i], emit[e].ev.data)

(***************************************************************************)
(* C16, C17, C18: the ewma stream.                                         *)
(***************************************************************************)
\* The positions of the ewma frames in the frames sent on c.
EwmaFrames(c) == {i \in 1..Len(sent[c]) : sent[c][i].type = "ewma"}

\* The positions in conn.subs of c of the ewma subscriptions with a positive
\* half-life for the trades of venue on symbol.
EwmaSubs(c, symbol, venue) ==
    {j \in 1..Len(subs[c]) :
        /\ subs[c][j].stream = "ewma"
        /\ subs[c][j].symbol = symbol
        /\ subs[c][j].exchange \in {Some("all"), Some(venue)}
        /\ subs[c][j].half_life # None /\ Val(subs[c][j].half_life) > 0}

\* C16: a trade handled by handle_trade sends exactly one ewma frame for each
\* matching ewma subscription entry with half_life > 0: a connection that
\* only subscribes has never been sent more ewma frames than trades were
\* handled times matching entries it holds.
C16_OneFramePerTrade ==
    \A c \in Conns :
        (\A j \in 1..Len(subs[c]) : subs[c][j].half_life # None => Val(subs[c][j].half_life) > 0)
        => Cardinality(EwmaFrames(c)) <= ntrades * Cardinality(EwmaSubs(c, BTCUSDT, "binance"))

\* The update of a stored state of key by a trade at (price, ts).
C17_Updated(old, key, price, ts) ==
    [value |-> Some(Smooth(Val(old.value), price, Max(0, ts - Val(old.last_ts)),
                           Val(key[3]))),
     last_ts |-> Some(ts)]

C17_Step ==
    \A c \in Conns : \A key \in DOMAIN ewma_state[c] :
        LET old == ewma_state[c][key]
            new == ewma_state'[c][key]
        IN  (old.value # None /\ new # old /\ Val(key[3]) > 0) =>
               new = C17_Updated(old, key, emit'["binance"].price, emit'["binance"].ts)

\* C17: a trade after the first, whatever the stored last_ts >= 0 (0
\* included), uses dt = max(0, ts - last_ts) and alpha = 1 - 2^(-dt/half_life):
\* value becomes (1 - alpha) * value + alpha * price and last_ts becomes ts.
C17_Recurrence == [][C17_Step]_vars

\* C18: an ewma subscription whose half_life is absent, zero or negative is
\* inert: no frame is sent for it and no state is kept for it.
C18_Inert ==
    \A c \in Conns :
        /\ \A key \in DOMAIN ewma_state[c] : key[3] # None /\ Val(key[3]) > 0
        /\ \A i \in EwmaFrames(c) :
              sent[c][i].half_life # None /\ Val(sent[c][i].half_life) > 0

(***************************************************************************)
(* C19: admission to the registry.                                         *)
(***************************************************************************)
Registered(c) == \E i \in 1..Len(connections) : connections[i] = c

\* C19: a websocket is in the registry only after a first frame that was an
\* auth with a valid token; after any other first frame it is closed with
\* code 1008, never registered and never sent a frame; a registered
\* websocket leaves the registry when its session ends.
C19_Admission ==
    \A c \in Conns :
        /\ Registered(c) => session[c].username # None
        /\ (nframes[c] >= 1 /\ session[c].username = None) =>
              /\ session[c].pc = "closed"
              /\ session[c].close_code = Some(PolicyViolation)
              /\ ~Registered(c)
              /\ sent[c] = << >>
        /\ session[c].pc = "closed" => ~Registered(c)

(***************************************************************************)
(* C20: unsubscribe against the passes in progress.                        *)
(***************************************************************************)
\* The frame at position i of the log of c is a reply about (stream, symbol).
C20_Reply(c, i, stream, symbol) ==
    /\ sent[c][i].type \in {"subscribed", "unsubscribed"}
    /\ sent[c][i].stream = stream
    /\ sent[c][i].symbol = symbol

\* The last reply about (stream, symbol) on c was "unsubscribed".
C20_Left(c, stream, symbol) ==
    \E i \in 1..Len(sent[c]) :
        /\ C20_Reply(c, i, stream, symbol)
        /\ sent[c][i].type = "unsubscribed"
        /\ \A j \in (i + 1)..Len(sent[c]) : ~C20_Reply(c, j, stream, symbol)

C20_Step ==
    \A c \in Conns :
        LET f == SentOn(c)
        IN  /\ (f # None /\ Val(f).type = "unsubscribed") =>
                  subs'[c] = SelectSeq(subs[c],
                                LAMBDA sub : ~(sub.stream = Val(f).stream
                                               /\ sub.symbol = Val(f).symbol))
            /\ (f # None /\ Val(f).type \in {"best_touch", "trades", "klines", "ewma"}) =>
                  ~C20_Left(c, Val(f).type, Val(f).symbol)

\* C20: with the unsubscribed reply for (stream, symbol) the connection
\* holds no subscription of that stream and symbol and keeps its other
\* subscriptions, and from then on no frame of that stream and symbol goes
\* out on it, whatever pass is in progress.
C20_Unsubscribe == [][C20_Step]_vars

(***************************************************************************)
(* C21: the snapshot read back.                                            *)
(***************************************************************************)
\* C21: save_state followed by load_state into a cleared instance gives back
\* the users with their hashes, the balances, every field of every order and
\* the lists of open ids in their order; load_state without a snapshot file
\* leaves the state in memory as it is.
C21_RoundTrip ==
    /\ load_state(Cleared, save_state(Store)) = Store
    /\ load_state(Store, None) = Store

\* After a restart the memory holds what was read from a snapshot with a
\* user, a filled order and an open one.
C21_Witness ==
    /\ ret # None /\ ret.op = "startup"
    /\ disk # None
    /\ "alice" \in DOMAIN users
    /\ \E t1, t2 \in DOMAIN orders :
          /\ orders[t1].status = "filled" /\ orders[t1].reserved_amount > 0
          /\ orders[t2].status = "open"
          /\ open_orders_by_symbol[BTCUSDT] = <<t2>>

(***************************************************************************)
(* C22: the snapshot after every operation.                                *)
(***************************************************************************)
\* What a reader finds in the snapshot file; no file reads as no entry.
SnapshotOf(doc) == IF doc = None THEN save_state(Cleared) ELSE doc

\* C22: whenever no operation is in progress, the users, balances, orders
\* and lists of open ids of the snapshot file are those in memory, after
\* accepted and rejected operations alike.
C22_SnapshotCurrent ==
    (\A t \in Tasks : tasks[t].pc = "idle") => SnapshotOf(disk) = save_state(Store)

(***************************************************************************)
(* C23: the error outcomes of the order endpoints.                         *)
(***************************************************************************)
\* A GET or DELETE of /orders/{token_id} was answered with an error.
C23_Refused == ret' # None /\ ret'.op \in {"order_status", "cancel_order"} /\ ~ret'.ok

C23_Step ==
    C23_Refused =>
        /\ UNCHANGED <<users, balances, orders, open_orders_by_symbol, disk>>
        /\ ret'.reason = <<"order not found">> => ret'.status = NotFound
        /\ ret'.reason = <<"order is not open">> => ret'.status = BadRequest
        /\ \A t \in TokenIds \ DOMAIN orders :
              cancel_order(Store, "alice", t).reason = <<"order not found">>

\* C23: a GET or a DELETE of /orders/{token_id} for a token_id that does not
\* exist is answered 404, a DELETE of an order that is not open 400, and
\* neither changes the state.
C23_ErrorOutcomes == [][C23_Step]_vars

(***************************************************************************)
(* C24: the EWMA state of a subscription that was removed.                 *)
(***************************************************************************)
\* Every EWMA state of a connection in service belongs to an ewma
\* subscription the connection holds.
C24_Owned ==
    \A c \in Conns :
        session[c].pc = "serving" =>
            \A key \in DOMAIN ewma_state[c] :
                \E j \in 1..Len(subs[c]) :
                    /\ subs[c][j].stream = "ewma"
                    /\ <<subs[c][j].symbol, subs[c][j].exchange, subs[c][j].half_life>> = key

\* c unsubscribed from the EWMA of symbol, subscribed again, and has been
\* sent no ewma frame since.
C24_Renewed(c, symbol) ==
    \E i, j \in 1..Len(sent[c]) :
        /\ i < j
        /\ C20_Reply(c, i, "ewma", symbol) /\ sent[c][i].type = "unsubscribed"
        /\ C20_Reply(c, j, "ewma", symbol) /\ sent[c][j].type = "subscribed"
        /\ \A k \in (i + 1)..Len(sent[c]) :
              /\ sent[c][k].type # "ewma"
              /\ k # j => ~C20_Reply(c, k, "ewma", symbol)

C24_Step ==
    /\ C24_Owned'
    /\ \A c \in Conns :
          LET f == SentOn(c)
          IN  (f # None /\ Val(f).type = "ewma" /\ C24_Renewed(c, Val(f).symbol)) =>
                 Val(f).value = <<emit'["binance"].price, 1>>

\* C24: after an unsubscribe (or the end of the connection) no EWMA state
\* of the removed subscription remains, and the first ewma frame of a later
\* identical subscription carries the price of the trade it was sent for.
C24_StateDiesWithSubscription == [][C24_Step]_vars

(***************************************************************************)
(* C25: split_symbol.                                                      *)
(***************************************************************************)
\* The split of symbol with the suffixes tested in the order of the
\* sequence suffixes, and the last three characters when none matches.
RECURSIVE C25_SplitBy(_, _)
C25_SplitBy(suffixes, symbol) ==
    IF suffixes = << >>
    THEN <<DropLast(symbol, 3), TakeLast(symbol, 3)>>
    ELSE IF EndsWith(symbol, Head(suffixes))
    THEN <<DropLast(symbol, Len(Head(suffixes))), Head(suffixes)>>
    ELSE C25_SplitBy(Tail(suffixes), symbol)

C25_Orders ==
    {<<USDT, USDC, USD>>, <<USDT, USD, USDC>>, <<USDC, USDT, USD>>,
     <<USDC, USD, USDT>>, <<USD, USDT, USDC>>, <<USD, USDC, USDT>>}

\* C25: split_symbol returns the symbol without its suffix and the suffix for
\* the first suffix among USDT, USDC, USD that matches, otherwise all but the
\* last three characters and the last three; the four symbols of the tests
\* split as stated, and the order of the three tests does not matter.
C25_SplitSymbol ==
    (ret # None /\ ret.op = "split_symbol") =>
        /\ \A order \in C25_Orders : ret.value = C25_SplitBy(order, ret.symbol)
        /\ ret.value[1] \o ret.value[2] = ret.symbol
        /\ ret.symbol = BTCUSDT => ret.value = <<BTC, USDT>>
        /\ ret.symbol = BTCUSD => ret.value = <<BTC, USD>>
        /\ ret.symbol = BTCUSDC => ret.value = <<BTC, USDC>>
        /\ ret.symbol = FOOBAR => ret.value = <<<<"F", "O", "O">>, <<"B", "A", "R">>>>

\* BTCUSDC was split.
C25_Witness ==
    ret # None /\ ret.op = "split_symbol" /\ ret.symbol = BTCUSDC /\ ret.value[2] = USDC

(***************************************************************************)
(* C26: the labels of the intervals.                                       *)
(***************************************************************************)
\* The klines frames sent on c.
C26_Klines(c) == {i \in 1..Len(sent[c]) : sent[c][i].type = "klines"}

\* C26: an interval of I seconds is labelled "{I div 60}m" from 60 on and
\* "{I}s" below, so that 1, 10, 60, 300 are labelled 1s, 10s, 1m, 5m, four
\* different labels; every klines frame carries the label of the length of
\* its candle, and goes only to a connection whose subscription names that
\* label.
C26_Labels ==
    /\ \A I \in 1..300 :
          _interval_label(I) = IF I >= 60 THEN <<I \div 60, "m">> ELSE <<I, "s">>
    /\ <<_interval_label(1), _interval_label(10), _interval_label(60), _interval_label(300)>>
          = <<<<1, "s">>, <<10, "s">>, <<1, "m">>, <<5, "m">>>>
    /\ Cardinality({_interval_label(I) : I \in {1, 10, 60, 300}}) = 4
    /\ \A c \in Conns : \A i \in C26_Klines(c) :
          /\ sent[c][i].interval = _interval_label(sent[c][i].end - sent[c][i].start)
          /\ \E j \in 1..Len(subs[c]) : subs[c][j].interval = sent[c][i].interval

\* c1 named the one-minute interval 1m and 60s and was sent the candle of
\* one minute once for the trade.
C26_Witness ==
    /\ Len(subs["c1"]) = 2 /\ subs["c1"][1].interval # subs["c1"][2].interval
    /\ ntrades = 1 /\ emit["binance"].pc = "idle"
    /\ Cardinality(C26_Klines("c1")) = 1
    /\ \E i \in C26_Klines("c1") : sent["c1"][i].interval = <<1, "m">>

(***************************************************************************)
(* C27: the bests a fill is made against.                                  *)
(***************************************************************************)
\* The step fills the order token_id.
C27_Fills(token_id) ==
    /\ token_id \in DOMAIN orders
    /\ orders[token_id].status = "open"
    /\ orders'[token_id].status = "filled"

C27_Step ==
    \A token_id \in TokenIds :
        C27_Fills(token_id) =>
            LET order == orders'[token_id]
                best == synthetic_best(best_touch[order.symbol])
            IN  order.filled_price =
                    IF order.side = "buy" THEN best.best_ask ELSE best.best_bid

\* C27: with the handlers of several venues running for one symbol, every
\* fill is made at the synthetic best of the quote table as it stands at the
\* fill: the best ask for a buy, the best bid for a sell.
C27_FillsAtCurrentBest == [][C27_Step]_vars

(***************************************************************************)
(* C28: the mutexes around the sends.                                      *)
(***************************************************************************)
\* Task e is suspended in a send to a client socket.
C28_InSend(e) == emit[e].pc \in {"best_touch", "trades", "klines", "tick", "ewma"}

\* C28: no task awaits a send to a client socket or the write of the
\* snapshot file while it holds the mutex of the application state, of the
\* candles or of the registry.  The critical sections of the state and of
\* the registry lie inside one step of a task; the candles mutex is the one
\* a suspended task can hold.
C28_NoMutexAcrossSend ==
    \A e \in Emitters : C28_InSend(e) => klines_lock # Some(e)

(***************************************************************************)
(* C29: the loop of a feed listener.                                       *)
(***************************************************************************)
C29_Step ==
    \A e \in Listeners :
        /\ emit'[e].pc # "dead"
        /\ (emit'[e].pc = "connecting" /\ emit[e].pc # "connecting") =>
               emit[e].pc = "reconnecting"
        /\ (emit[e].pc = "connecting" /\ emit'[e].pc # "connecting") =>
               emit'[e].pc \in {"idle", "reconnecting"}

\* C29: a listener never ends, and every end of a session, whether connect
\* failed, a message could not be decoded or the session dropped (also when
\* the venue closed it without an error), is followed by the backoff wait
\* before the next call of connect.
C29_BackoffBeforeConnect == [][C29_Step]_vars

(***************************************************************************)
(* C30: venue messages with a missing field.                               *)
(***************************************************************************)
\* C30: a venue message with a missing field is skipped: it changes no
\* stored quote, candle, order or balance.  Every complete message carries
\* prices above 0, so that no stored quote has a bid or an ask of 0, no
\* candle a price of 0 and no order is filled at 0.
C30_Skipped ==
    /\ \A symbol \in DOMAIN best_touch : \A i \in 1..Len(best_touch[symbol]) :
          /\ best_touch[symbol][i].best_bid # Some(0)
          /\ best_touch[symbol][i].best_ask # Some(0)
    /\ \A i \in 1..Len(klines) : klines[i].candle.low > 0
    /\ \A token_id \in DOMAIN orders : orders[token_id].filled_price # Some(0)

(***************************************************************************)
(* C31: the matcher behind the publication of the best touch.              *)
(***************************************************************************)
\* C31: every quote update committed by handle_best_touch is followed by a
\* matcher evaluation with the bests computed from it, whatever happens
\* during the publication: a handler that has committed its quote and
\* stands in the publication leaves it only towards the matcher call.
C31_Step ==
    \A v \in Venues :
        tasks[v].pc \in {"publish", "sending"}
            => tasks'[v].pc \in {"publish", "sending", "match"}

C31_MatcherFollows == [][C31_Step]_vars

(***************************************************************************)
(* C32: reserved funds.                                                    *)
(***************************************************************************)
\* The open orders of username that reserve asset.
C32_Reserving(username, asset) ==
    {token_id \in DOMAIN orders :
        /\ orders[token_id].status = "open"
        /\ orders[token_id].username = username
        /\ ReservedAsset(orders[token_id].symbol, orders[token_id].side) = asset}

RECURSIVE C32_Sum(_)
C32_Sum(ids) ==
    IF ids = {} THEN 0
    ELSE LET token_id == CHOOSE x \in ids : TRUE
         IN  orders[token_id].reserved_amount + C32_Sum(ids \ {token_id})

C33_Ids(idx, symbol) == IF symbol \in DOMAIN idx THEN idx[symbol] ELSE << >>

\* The ids of the list that are open orders in ords, in the order of the list.
RECURSIVE C33_StillOpen(_, _)
C33_StillOpen(ids, ords) ==
    IF ids = << >> THEN << >>
    ELSE IF Head(ids) \in DOMAIN ords /\ ords[Head(ids)].status = "open"
    THEN <<Head(ids)>> \o C33_StillOpen(Tail(ids), ords)
    ELSE C33_StillOpen(Tail(ids), ords)

\* A token_id is in the entry of s exactly when its order exists, has symbol
\* s and is open, and it is there once.
C33_Consistent ==
    /\ \A s \in DOMAIN open_orders_by_symbol :
          LET ids == open_orders_by_symbol[s]
          IN  /\ \A i \in 1..Len(ids) :
                    /\ ids[i] \in DOMAIN orders
                    /\ orders[ids[i]].symbol = s
                    /\ orders[ids[i]].status = "open"
              /\ \A i, j \in 1..Len(ids) : ids[i] = ids[j] => i = j
    /\ \A token_id \in DOMAIN orders :
          orders[token_id].status = "open"
              => \E i \in 1..Len(C33_Ids(open_orders_by_symbol, orders[token_id].symbol)) :
                    open_orders_by_symbol[orders[token_id].symbol][i] = token_id

\* Placement order: a step leaves in an entry the ids that are still open,
\* in place, and puts an order placed by it behind them.  A fill is that of
\* the first id of the copy of the entry which a best-touch update took when
\* it began, and the update goes through its copy from front to back.
C33_Step ==
    /\ \A s \in Symbols :
          \E placed \in {<< >>} \cup {<<t>> : t \in DOMAIN orders' \ DOMAIN orders} :
             C33_Ids(open_orders_by_symbol', s)
                 = C33_StillOpen(C33_Ids(open_orders_by_symbol, s), orders') \o placed
    /\ \A token_id \in DOMAIN orders :
          orders[token_id].status = "open" /\ orders'[token_id].status = "filled"
              => \E k \in Tasks : /\ tasks[k].pc = "loop"
                                  /\ Head(tasks[k].order_ids) = token_id
                                  /\ tasks'[k] # tasks[k]
    /\ \A k \in Tasks :
          tasks'[k].pc = "loop" /\ tasks'[k] # tasks[k]
              => IF tasks[k].pc = "loop"
                 THEN tasks'[k].order_ids = Tail(tasks[k].order_ids)
                 ELSE tasks'[k].order_ids = C33_Ids(open_orders_by_symbol, tasks'[k].symbol)

\* C33: the open index holds exactly the open orders of each symbol, each
\* once and in placement order, and the orders filled by one best-touch
\* update are filled in placement order.
C33_OpenIndex == []C33_Consistent /\ [][C33_Step]_vars

\* A best-touch update has filled ord-2, placed first, and stands before
\* ord-1, placed second on the same symbol.
C33_Witness ==
    \E k \in Tasks :
        /\ tasks[k].pc = "loop"
        /\ tasks[k].order_ids = <<"ord-1">>
        /\ {"ord-1", "ord-2"} \subseteq DOMAIN orders
        /\ orders["ord-2"].status = "filled"
        /\ orders["ord-2"].symbol = orders["ord-1"].symbol
        /\ orders["ord-1"].status = "open"
        /\ C33_Ids(open_orders_by_symbol, orders["ord-1"].symbol) = <<"ord-1">>

(***************************************************************************)
(* C34: open orders against the synthetic best.                            *)
(***************************************************************************)
\* The synthetic best of symbol as BEST_TOUCH gives it now.
C34_Best(symbol) ==
    IF symbol \in DOMAIN best_touch THEN synthetic_best(best_touch[symbol]) ELSE NoBest

\* C34: whenever no operation is in progress, no open buy has a price >= the
\* current best ask of its symbol and no open sell a price <= the current
\* best bid.
C34_NoOpenOrderCrosses ==
    (\A t \in Tasks : tasks[t].pc = "idle")
        => \A token_id \in DOMAIN orders :
              LET o == orders[token_id]
                  best == C34_Best(o.symbol)
              IN  o.status = "open"
                    => /\ ~(o.side = "buy" /\ best.best_ask # None
                                /\ o.price >= Val(best.best_ask))
                       /\ ~(o.side = "sell" /\ best.best_bid # None
                                /\ o.price <= Val(best.best_bid))

====
